---- MODULE Spec2Model ----
\* GoHighLevel reporting dashboard: the paginated ingestion client (lib/ghl.js)
\* and the API route handlers that join the fetches and reduce the records to
\* metrics (app/api/*/route.js).
EXTENDS Integers, Sequences, FiniteSets, TLC

VARIABLES
    route,        \* the endpoint whose GET handler is running
    hpc,          \* position of the handler: "init", "awaiting", "responded"
    rejection,    \* reason Promise.all rejected with, NoError while not rejected
    httpResponse, \* the NextResponse the handler produced, NoResponse before
    fpc,          \* per fetcher: "idle", "inflight", "returned", "thrown"
    allItems,     \* per fetcher: the local allItems
    page,         \* per fetcher: the local page (Page-POST)
    startAfterId, \* per fetcher: the local startAfterId (Cursor-GET)
    hasMore,      \* per fetcher: the local hasMore
    response,     \* per fetcher: the local response (last body received)
    reqs,         \* per fetcher: the requests issued so far, in order
    pagesRcvd,    \* per fetcher: the item arrays received so far, in order
    maxTotal,     \* per fetcher: the largest total reported to it so far
    result,       \* per fetcher: the value its promise fulfilled with
    error,        \* per fetcher: the Error its promise rejected with
    clock,        \* what new Date() read in the handler, or in isWithinDays
    call,         \* a call of one function on its own, outside any handler
    contactsArray, \* the handler's contacts: the array getContacts() resolved
                  \* with, as the handler leaves it (NoResult before)
    dashboardPage \* the DashboardPage component in the browser: its state
                  \* (data, loading, error, dateRange), what it last rendered,
                  \* and its fetchSummary runs

vars == <<route, hpc, rejection, httpResponse, fpc, allItems, page,
          startAfterId, hasMore, response, reqs, pagesRcvd, maxTotal, result,
          error, clock, call, contactsArray, dashboardPage>>

\* ------------------------------------------------------------------ bounds
MaxId == 2        \* records served in short pages have ids 0..MaxId (0: no id)
MaxPageLen == 2   \* longest short page a server returns
MaxTotal == 3     \* largest fixed total a server reports
MaxReq == 3       \* responses one drain may receive (>= MaxTotal, so that
                  \* only a total that keeps growing can exhaust it)
MaxList == 3      \* longest fetched list handed to the aggregation
MaxHeld == 205    \* most records held by a server that serves them in order
MaxRuns == 3      \* fetchSummary runs the dashboard page may start
MaxTries == 2     \* clicks on "Try Again"

\* ------------------------------------------------------- program constants
Limit == 100
Absent == -1      \* a numeric field that is undefined or null
Null == -1        \* startAfterId before the first page

NoError == [none |-> TRUE, status |-> Absent, text |-> ""]
NoResult == <<[none |-> TRUE]>>
NoResponse == [status |-> 0]
NoCall == [fn |-> "none", pc |-> "none"]

\* useState(null), useState(true), useState(null), useState("month"), and
\* the first render: the loading skeleton. data is the generatedAt of the
\* summary it holds (the number of the run that fetched it), 0 for null;
\* error is the message, "" for null.
InitialPage ==
    [data |-> 0, loading |-> TRUE, error |-> "", dateRange |-> "month",
     view |-> "skeleton", mounted |-> FALSE, runs |-> <<>>, tries |-> 0]

Fetchers == {"contacts", "opportunities", "conversations", "pipelines"}
PostFetchers == {"contacts", "opportunities"}
GetFetchers == {"conversations"}
Routes == {"summary", "contacts", "opportunities", "conversations"}

RouteFetchers(r) ==
    CASE r = "summary" -> Fetchers
      [] r = "contacts" -> {"contacts"}
      [] r = "opportunities" -> {"opportunities", "pipelines"}
      [] r = "conversations" -> {"conversations"}

Max(a, b) == IF a >= b THEN a ELSE b
Min(a, b) == IF a <= b THEN a ELSE b

\* ------------------------------------------------------- JavaScript values
\* What a field of a record served by the provider may hold: undefined (the
\* field is missing), null, a number, a string; and what a computation may
\* produce besides: NaN, or a function (what a lookup in a fresh {} finds
\* under a name that Object.prototype defines). A string is the sequence of
\* its symbols: every digit, "-", ":" and "T" is a symbol on its own, a
\* word without digits is one symbol.
Undefined == [kind |-> "undefined", num |-> 0, str |-> <<>>]
NullValue == [kind |-> "null", num |-> 0, str |-> <<>>]
NaN == [kind |-> "NaN", num |-> 0, str |-> <<>>]
Num(n) == [kind |-> "number", num |-> n, str |-> <<>>]
Str(s) == [kind |-> "string", num |-> 0, str |-> s]
Word(w) == Str(<<w>>)

Digits == <<"0", "1", "2", "3", "4", "5", "6", "7", "8", "9">>
IsDigit(c) == \E d \in 1..10 : Digits[d] = c
DigitValue(c) == (CHOOSE d \in 1..10 : Digits[d] = c) - 1
AllDigits(s) == \A i \in 1..Len(s) : IsDigit(s[i])

RECURSIVE NatToString(_)
NatToString(n) ==
    IF n < 10 THEN <<Digits[n + 1]>>
    ELSE NatToString(n \div 10) \o <<Digits[(n % 10) + 1]>>

\* Number::toString for an integer
NumberToString(n) ==
    IF n < 0 THEN <<"-">> \o NatToString(-n) ELSE NatToString(n)

RECURSIVE DigitsValue(_)
DigitsValue(s) ==
    IF s = <<>> THEN 0
    ELSE 10 * DigitsValue(SubSeq(s, 1, Len(s) - 1)) + DigitValue(s[Len(s)])

\* StringToNumber: the empty string is 0, a decimal literal its value,
\* anything else NaN.
StringToNumber(s) ==
    IF s = <<>> THEN Num(0)
    ELSE IF AllDigits(s) THEN Num(DigitsValue(s))
    ELSE IF s[1] = "-" /\ Len(s) > 1 /\ AllDigits(Tail(s))
         THEN Num(-DigitsValue(Tail(s)))
    ELSE NaN

\* ToNumber
NumberOf(v) ==
    CASE v.kind = "number" -> v
      [] v.kind = "string" -> StringToNumber(v.str)
      [] v.kind = "null" -> Num(0)
      [] OTHER -> NaN

\* ToString
StringOf(v) ==
    CASE v.kind = "number" -> NumberToString(v.num)
      [] v.kind \in {"string", "function"} -> v.str
      [] v.kind = "null" -> <<"null">>
      [] v.kind = "undefined" -> <<"undefined">>
      [] OTHER -> <<"NaN">>

\* ToBoolean
ToBoolean(v) ==
    CASE v.kind = "number" -> v.num # 0
      [] v.kind = "string" -> v.str # <<>>
      [] v.kind = "function" -> TRUE
      [] OTHER -> FALSE

\* a || b
Or(a, b) == IF ToBoolean(a) THEN a ELSE b

\* a + b: concatenation as soon as one side is a string (or an object,
\* whose primitive is a string), addition of the numbers otherwise.
Plus(a, b) ==
    IF a.kind \in {"string", "function"} \/ b.kind \in {"string", "function"}
    THEN Str(StringOf(a) \o StringOf(b))
    ELSE LET x == NumberOf(a)
             y == NumberOf(b)
         IN  IF x.kind = "NaN" \/ y.kind = "NaN" THEN NaN
             ELSE Num(x.num + y.num)

\* a > n for a number n: a is converted to a number, NaN compares false.
GreaterThan(a, n) ==
    LET x == NumberOf(a) IN x.kind = "number" /\ x.num > n

\* item[key] on a record: undefined when the record has no such field.
Field(item, key) == IF key \in DOMAIN item THEN item[key] ELSE Undefined

\* An object literal {} used as a map is the sequence of its own entries
\* [name, value] in insertion order; a name it does not own is looked up in
\* Object.prototype, which defines (among others) the names below, each
\* holding a function.
ObjectPrototypeNames == {"constructor", "toString", "valueOf", "hasOwnProperty"}

Function(w) ==
    [kind |-> "function", num |-> 0,
     str |-> <<CASE w = "constructor" -> "function Object() { [native code] }"
                 [] w = "toString" -> "function toString() { [native code] }"
                 [] w = "valueOf" -> "function valueOf() { [native code] }"
                 [] OTHER -> "function hasOwnProperty() { [native code] }">>]

Inherited(name) == Len(name) = 1 /\ name[1] \in ObjectPrototypeNames

Owns(obj, name) == \E i \in 1..Len(obj) : obj[i].name = name

OwnValue(obj, name) ==
    obj[CHOOSE i \in 1..Len(obj) : obj[i].name = name].value

\* obj[name] = value
Put(obj, name, value) ==
    IF Owns(obj, name)
    THEN [obj EXCEPT ![CHOOSE i \in 1..Len(obj) : obj[i].name = name] =
                        [name |-> name, value |-> value]]
    ELSE Append(obj, [name |-> name, value |-> value])

\* obj[name] where the object's own values are scalars
Get(obj, name) ==
    IF Owns(obj, name) THEN OwnValue(obj, name)
    ELSE IF Inherited(name) THEN Function(name[1])
    ELSE Undefined

\* ------------------------------------------------------------------ dates
\* A Date is valid or not; the time of a valid Date is counted in minutes
\* since 1970-01-01T00:00, the server's zone being UTC.
InvalidDate == [valid |-> FALSE, time |-> 0]
DateAt(t) == [valid |-> TRUE, time |-> t]

MinutesPerDay == 1440

IsLeap(y) == (y % 4 = 0 /\ y % 100 # 0) \/ y % 400 = 0

DaysInMonth(y, m) ==
    CASE m \in {4, 6, 9, 11} -> 30
      [] m = 2 -> IF IsLeap(y) THEN 29 ELSE 28
      [] OTHER -> 31

RECURSIVE DaysBeforeMonth(_, _)
DaysBeforeMonth(y, m) ==
    IF m = 1 THEN 0 ELSE DaysBeforeMonth(y, m - 1) + DaysInMonth(y, m - 1)

LeapsUpTo(y) == (y \div 4) - (y \div 100) + (y \div 400)

DaysBeforeYear(y) == 365 * (y - 1970) + LeapsUpTo(y - 1) - LeapsUpTo(1969)

Instant(y, m, d, h, mi) ==
    (DaysBeforeYear(y) + DaysBeforeMonth(y, m) + d - 1) * MinutesPerDay
        + 60 * h + mi

RECURSIVE Pad(_, _)
Pad(n, w) ==
    IF w = 0 THEN <<>> ELSE Pad(n \div 10, w - 1) \o <<Digits[(n % 10) + 1]>>

\* The text "YYYY-MM-DD" and the text "YYYY-MM-DDTHH:MM".
Iso(y, m, d) == Pad(y, 4) \o <<"-">> \o Pad(m, 2) \o <<"-">> \o Pad(d, 2)
IsoAt(y, m, d, h, mi) ==
    Iso(y, m, d) \o <<"T">> \o Pad(h, 2) \o <<":">> \o Pad(mi, 2)

\* The parse of a text in one of the two forms above; every other text and
\* every date or time out of range is an Invalid Date.
ParseIsoText(s) ==
    LET dateOk == /\ Len(s) \in {10, 16}
                  /\ AllDigits(SubSeq(s, 1, 4)) /\ s[5] = "-"
                  /\ AllDigits(SubSeq(s, 6, 7)) /\ s[8] = "-"
                  /\ AllDigits(SubSeq(s, 9, 10))
        timeOk == Len(s) = 16 =>
                      /\ s[11] = "T" /\ AllDigits(SubSeq(s, 12, 13))
                      /\ s[14] = ":" /\ AllDigits(SubSeq(s, 15, 16))
        y == DigitsValue(SubSeq(s, 1, 4))
        m == DigitsValue(SubSeq(s, 6, 7))
        d == DigitsValue(SubSeq(s, 9, 10))
        h == IF Len(s) = 16 THEN DigitsValue(SubSeq(s, 12, 13)) ELSE 0
        mi == IF Len(s) = 16 THEN DigitsValue(SubSeq(s, 15, 16)) ELSE 0
    IN  IF dateOk /\ timeOk /\ m \in 1..12 /\ d \in 1..DaysInMonth(y, m)
           /\ h \in 0..23 /\ mi \in 0..59
        THEN DateAt(Instant(y, m, d, h, mi))
        ELSE InvalidDate

\* date-fns parseISO: an argument that is not a string gives an Invalid Date
\* (or makes parseISO throw, which isWithinDays catches to the same effect).
parseISO(v) == IF v.kind = "string" THEN ParseIsoText(v.str) ELSE InvalidDate

\* date-fns subDays
subDays(date, amount) ==
    IF date.valid THEN DateAt(date.time - amount * MinutesPerDay)
    ELSE InvalidDate

\* date-fns isAfter: date.getTime() > dateToCompare.getTime()
isAfter(date, dateToCompare) ==
    date.valid /\ dateToCompare.valid /\ date.time > dateToCompare.time

\* new Date(value): undefined gives an Invalid Date, null the epoch, a
\* number that time (in milliseconds), a string its parse.
NewDate(v) ==
    CASE v.kind = "string" -> ParseIsoText(v.str)
      [] v.kind = "null" -> DateAt(0)
      [] v.kind = "number" -> DateAt(v.num \div 60000)
      [] OTHER -> InvalidDate

\* A recency test that lets the cutoff itself pass.
isWithinDaysInclusive(isoString, days, now) ==
    IF ~ToBoolean(isoString) THEN FALSE
    ELSE LET date == parseISO(isoString)
             cutoff == subDays(DateAt(now), days)
         IN  date.valid /\ date.time >= cutoff.time

\* isWithinDays(isoString, days), new Date() reading the clock as now.
isWithinDays(isoString, days, now) ==
    IF ~ToBoolean(isoString) THEN FALSE
    ELSE LET date == parseISO(isoString)
             cutoff == subDays(DateAt(now), days)
         IN  isAfter(date, cutoff)

\* The readings of the clock: midnight and noon of 2024-06-15.
ClockReadings == {Instant(2024, 6, 15, 0, 0), Instant(2024, 6, 15, 12, 0)}
NoClock == 0

\* ------------------------------------------------------------ the records
\* Raw records as the provider serves them; the id decides the other fields.
\* Records with the ids 0..DatedIds carry a date, the others none.
DatedIds == 5

Contact(i) ==
    [id |-> i,
     source |-> IF i % 2 = 0 THEN Str(<<>>) ELSE Word("Facebook"),
     dateAdded |-> IF i <= DatedIds THEN Str(Iso(2024, 6, 1 + i)) ELSE NullValue]

Opportunity(i) ==
    [id |-> i,
     status |-> CASE i % 4 = 0 -> "open"
                  [] i % 4 = 1 -> "won"
                  [] i % 4 = 2 -> "lost"
                  [] OTHER -> "abandoned",
     monetaryValue |-> CASE i % 3 = 0 -> Num(50)
                         [] i % 3 = 1 -> Num(100)
                         [] OTHER -> Num(0),
     pipelineStageId |-> CASE i % 3 = 0 -> Undefined
                           [] i % 3 = 1 -> Word("stage1")
                           [] OTHER -> Word("stage2")]

Conversation(i) ==
    [id |-> i,
     unreadCount |-> i % 2,
     status |-> IF i % 3 = 0 THEN "open" ELSE "closed",
     lastMessageType |-> IF i % 2 = 0 THEN "TYPE_OUTBOUND" ELSE "TYPE_INBOUND",
     lastMessageDate |-> IF i % 2 = 1 /\ i <= DatedIds
                         THEN Str(Iso(2024, 6, 1 + i)) ELSE Undefined,
     dateAdded |-> IF i <= DatedIds THEN Str(Iso(2024, 1, 1)) ELSE Undefined]

Pipeline(i) ==
    [id |-> i, stages |-> <<[id |-> Word("stage1"), name |-> Word("New Lead")]>>]

Record(f, i) ==
    CASE f = "contacts" -> Contact(i)
      [] f = "opportunities" -> Opportunity(i)
      [] f = "conversations" -> Conversation(i)
      [] f = "pipelines" -> Pipeline(i)

\* --------------------------------------------------- what a server may send
\* A route that runs one drain is served every short page (at most MaxPageLen
\* records with consecutive ids within 0..MaxId, id 0 standing for a record
\* without id, so that pages may overlap or repeat), one full page of Limit
\* records with ids 1..Limit (the Cursor-GET drain, whose test for a next
\* page might take a full page for a signal), or a body without the data
\* key. A route that runs several fetchers side by side is served the empty
\* page or the page holding record 1.
Concurrent(r) == Cardinality(RouteFetchers(r)) > 1

Slice(f, a, n) == [i \in 1..n |-> Record(f, a + i - 1)]

FullPage(f) == Slice(f, 1, Limit)

ShortPages(f, r) ==
    IF Concurrent(r) THEN {<<>>, Slice(f, 1, 1)}
    ELSE UNION {{Slice(f, a, n) : n \in 0..Min(MaxPageLen, MaxId - a + 1)} :
                a \in 0..MaxId}

DataFields(f, r) ==
    {[hasData |-> TRUE, data |-> p] : p \in ShortPages(f, r)}
        \cup (IF Concurrent(r) THEN {}
              ELSE {[hasData |-> FALSE, data |-> <<>>]})
        \cup (IF Concurrent(r) \/ f \notin GetFetchers THEN {}
              ELSE {[hasData |-> TRUE, data |-> FullPage(f)]})

\* Totals a server may report once n items have been received: a fixed small
\* number, or one more than what it has served so far; in meta.total, in
\* total, in neither, or in both with different values.
TotalValues(n) == (0..MaxTotal) \cup {n + 1}

TotalFields(n, r) ==
    IF Concurrent(r)
    THEN {[metaTotal |-> Absent, total |-> Absent],
          [metaTotal |-> n + 1, total |-> Absent]}
    ELSE {[metaTotal |-> Absent, total |-> Absent],
          [metaTotal |-> n + 1, total |-> 0],
          [metaTotal |-> 0, total |-> n + 1]}
         \cup {[metaTotal |-> t, total |-> Absent] : t \in TotalValues(n)}
         \cup {[metaTotal |-> Absent, total |-> t] : t \in TotalValues(n)}

\* meta.nextPageUrl and meta.nextPage, each truthy or not.
SignalFields(r) ==
    IF Concurrent(r)
    THEN {[nextPageUrl |-> FALSE, nextPage |-> b] : b \in BOOLEAN}
    ELSE [nextPageUrl : BOOLEAN, nextPage : BOOLEAN]

Body(d, t, s) ==
    [none |-> FALSE, hasData |-> d.hasData, data |-> d.data,
     metaTotal |-> t.metaTotal, total |-> t.total,
     nextPageUrl |-> s.nextPageUrl, nextPage |-> s.nextPage]

NoTotals == [metaTotal |-> Absent, total |-> Absent]
NoSignal == [nextPageUrl |-> FALSE, nextPage |-> FALSE]
NoBody == [none |-> TRUE, hasData |-> FALSE, data |-> <<>>,
           metaTotal |-> Absent, total |-> Absent,
           nextPageUrl |-> FALSE, nextPage |-> FALSE]

\* Failures of a call as axios reports them to the response interceptor.
AllFailures ==
    {[hasResponse |-> TRUE, status |-> 500, dataMessage |-> "Internal error",
      dataMsg |-> "", text |-> "Request failed with status code 500"],
     [hasResponse |-> TRUE, status |-> 401, dataMessage |-> "",
      dataMsg |-> "Unauthorized", text |-> "Request failed with status code 401"],
     [hasResponse |-> TRUE, status |-> 404, dataMessage |-> "",
      dataMsg |-> "", text |-> "Request failed with status code 404"],
     [hasResponse |-> FALSE, status |-> Absent, dataMessage |-> "",
      dataMsg |-> "", text |-> "timeout of 15000ms exceeded"]}

Failures(r) ==
    IF Concurrent(r) THEN {e \in AllFailures : e.status \in {500, Absent}}
    ELSE AllFailures

\* ------------------------------------------------------ lib/ghl.js helpers
\* The interceptor with the two envelope fields read in the other order.
interceptErrorMsgFirst(e) ==
    [none |-> FALSE,
     status |-> IF e.hasResponse THEN e.status ELSE Absent,
     text |-> IF e.hasResponse /\ e.dataMsg # "" THEN e.dataMsg
              ELSE IF e.hasResponse /\ e.dataMessage # "" THEN e.dataMessage
              ELSE e.text]

\* The interceptor's error branch: the Error it throws, its message kept as
\* the pair (status, message) that the template string is built from.
interceptError(e) ==
    [none |-> FALSE,
     status |-> IF e.hasResponse THEN e.status ELSE Absent,
     text |-> IF e.hasResponse /\ e.dataMessage # "" THEN e.dataMessage
              ELSE IF e.hasResponse /\ e.dataMsg # "" THEN e.dataMsg
              ELSE e.text]

\* `${status}` in the template string: the digits, or "undefined".
StatusText(status) ==
    IF status = Absent THEN <<"undefined">> ELSE NatToString(status)

\* The message of the Error thrown: `GHL API Error (${status}): ${message}`
ErrorMessage(status, text) ==
    <<"GHL API Error (">> \o StatusText(status) \o <<"): ", text>>

\* response[dataKey] || []
ItemsOf(resp) == IF resp.hasData THEN resp.data ELSE <<>>

\* A push that puts the new page in front of the accumulated items.
PushAllFront(all, items) == items \o all

\* allItems.push(...items)
PushAll(all, items) == all \o items

\* response.meta?.total ?? response.total ?? 0
EffTotal(resp) ==
    IF resp.metaTotal # Absent THEN resp.metaTotal
    ELSE IF resp.total # Absent THEN resp.total
    ELSE 0

\* A stop test that looks at the page only, never at the total.
PostStopOnEmptyPage(all, items, total) == Len(items) = 0

\* allItems.length >= total || items.length === 0
PostStop(all, items, total) == Len(all) >= total \/ Len(items) = 0

\* A page counter that is not advanced.
SamePage(p) == p

\* page++
NextPage(p) == p + 1

\* A test that follows the next-page signal even on an empty page.
GetMoreOnSignal(items, resp) == resp.nextPageUrl \/ resp.nextPage

\* A test that also goes on after a full page that carries no signal.
GetMoreOnFullPage(items, resp) ==
    Len(items) > 0 /\ (resp.nextPageUrl \/ resp.nextPage \/ Len(items) >= Limit)

\* A test that goes on after every page that is not empty.
GetMoreOnItems(items, resp) == Len(items) > 0

\* items.length > 0 && (response.meta?.nextPageUrl || response.meta?.nextPage)
GetMore(items, resp) == Len(items) > 0 /\ (resp.nextPageUrl \/ resp.nextPage)

\* A cursor taken from the first item of the page.
FirstId(items) == IF items = <<>> THEN Null ELSE items[1].id

\* items[items.length - 1].id, read only when the page is not empty
LastId(items) == IF items = <<>> THEN Null ELSE items[Len(items)].id

Truthy(v) == v # Null /\ v # 0

\* A request that counts pages from 0.
PostRequestZeroBased(p) == [page |-> p - 1, limit |-> Limit]

PostRequest(p) == [page |-> p, limit |-> Limit]

\* ...(startAfterId ? { startAfterId } : {})
GetRequest(sid) ==
    [limit |-> Limit, startAfterId |-> IF Truthy(sid) THEN sid ELSE Absent]

PipelinesRequest == [limit |-> Absent, startAfterId |-> Absent]

FirstRequest(f) ==
    IF f \in PostFetchers THEN PostRequest(1)
    ELSE IF f \in GetFetchers THEN GetRequest(Null)
    ELSE PipelinesRequest

\* ------------------------------------------------------------- aggregation
RECURSIVE Gcd(_, _)
Gcd(a, b) == IF b = 0 THEN a ELSE Gcd(b, a % b)

\* The number a / b (b > 0), kept as a fraction in lowest terms.
Div(a, b) == [num |-> a \div Gcd(a, b), den |-> b \div Gcd(a, b)]
Zero == [num |-> 0, den |-> 1]

\* opportunities.filter((o) => o.status === s).length
StatusCount(opportunities, s) ==
    Len(SelectSeq(opportunities, LAMBDA o : o.status = s))

\* A win rate taken over all opportunities instead of the closed ones.
summaryWinRateOfAll(opportunities) ==
    LET wonCount == StatusCount(opportunities, "won")
    IN  IF Len(opportunities) > 0 THEN Div(wonCount, Len(opportunities))
        ELSE Zero

\* /api/summary, the win rate calculation
summaryWinRate(opportunities) ==
    LET wonCount == StatusCount(opportunities, "won")
        lostCount == StatusCount(opportunities, "lost")
        closedTotal == wonCount + lostCount
    IN  IF closedTotal > 0 THEN Div(wonCount, closedTotal) ELSE Zero

\* /api/opportunities, the win rate calculation
opportunitiesWinRate(opportunities) ==
    LET wonCount == StatusCount(opportunities, "won")
        lostCount == StatusCount(opportunities, "lost")
        closedTotal == wonCount + lostCount
    IN  IF closedTotal > 0 THEN Div(wonCount, closedTotal) ELSE Zero

\* conversations.filter((c) => c.unreadCount > 0 || c.status === "open").length
OpenCount(conversations) ==
    Len(SelectSeq(conversations,
                  LAMBDA c : c.unreadCount > 0 \/ c.status = "open"))

\* A closed count taken from the status field alone.
ClosedCountByStatus(conversations) ==
    Len(SelectSeq(conversations, LAMBDA c : c.status = "closed"))

\* conversations.length - openCount
ClosedCount(conversations) == Len(conversations) - OpenCount(conversations)

\* A number that is not one: the quotient NaN / n.
NotANumber == [num |-> 0, den |-> 0]

\* v / n for a count n > 0, v converted to a number first
Quotient(v, n) ==
    LET x == NumberOf(v)
    IN  IF x.kind = "NaN" THEN NotANumber ELSE Div(x.num, n)

\* A response rate computed without the test for the empty list.
ResponseRateUnguarded(conversations) ==
    LET withReply == Len(SelectSeq(conversations,
                            LAMBDA c : c.lastMessageType = "TYPE_OUTBOUND"))
    IN  IF Len(conversations) > 0 THEN Div(withReply, Len(conversations))
        ELSE NotANumber

\* conversations.length > 0 ? withReply / conversations.length : 0
ResponseRate(conversations) ==
    LET withReply == Len(SelectSeq(conversations,
                            LAMBDA c : c.lastMessageType = "TYPE_OUTBOUND"))
    IN  IF Len(conversations) > 0 THEN Div(withReply, Len(conversations))
        ELSE Zero

\* conversations.filter((c) =>
\*     isWithinDays(c.lastMessageDate || c.dateAdded, 30)).length
RecentCount(conversations, now) ==
    Len(SelectSeq(conversations,
          LAMBDA c : isWithinDays(Or(c.lastMessageDate, c.dateAdded), 30, now)))

\* The callback of a reduce gets the accumulator as a value: the left part
\* of the list is reduced before the right part is begun.
Evaluated(acc) == acc = acc

\* opportunities.reduce((sum, o) => sum + (o.monetaryValue || 0), 0), from
\* the accumulator sum on
RECURSIVE TotalValueFrom(_, _)
TotalValueFrom(sum, opportunities) ==
    LET n == Len(opportunities)
        h == n \div 2
    IN  IF n = 0 THEN sum
        ELSE IF n = 1
             THEN Plus(sum, Or(opportunities[1].monetaryValue, Num(0)))
        ELSE LET left == TotalValueFrom(sum, SubSeq(opportunities, 1, h))
             IN  IF Evaluated(left)
                 THEN TotalValueFrom(left, SubSeq(opportunities, h + 1, n))
                 ELSE left

TotalValue(opportunities) == TotalValueFrom(Num(0), opportunities)

\* withValue.reduce((s, o) => s + o.monetaryValue, 0), from s on
RECURSIVE ValueSumFrom(_, _)
ValueSumFrom(s, withValue) ==
    LET n == Len(withValue)
        h == n \div 2
    IN  IF n = 0 THEN s
        ELSE IF n = 1 THEN Plus(s, withValue[1].monetaryValue)
        ELSE LET left == ValueSumFrom(s, SubSeq(withValue, 1, h))
             IN  IF Evaluated(left)
                 THEN ValueSumFrom(left, SubSeq(withValue, h + 1, n))
                 ELSE left

\* An average taken over the won and lost opportunities only.
AvgDealSizeOfClosed(opportunities) ==
    LET withValue == SelectSeq(opportunities,
                        LAMBDA o : /\ GreaterThan(o.monetaryValue, 0)
                                   /\ o.status \in {"won", "lost"})
    IN  IF Len(withValue) > 0
        THEN Quotient(ValueSumFrom(Num(0), withValue), Len(withValue))
        ELSE Zero

\* The average deal size (the same code in both routes).
AvgDealSize(opportunities) ==
    LET withValue == SelectSeq(opportunities,
                        LAMBDA o : GreaterThan(o.monetaryValue, 0))
    IN  IF Len(withValue) > 0
        THEN Quotient(ValueSumFrom(Num(0), withValue), Len(withValue))
        ELSE Zero

\* pipeline.stages || []
Stages(pipeline) ==
    IF "stages" \in DOMAIN pipeline THEN pipeline.stages ELSE <<>>

RECURSIVE AllStages(_)
AllStages(pipelines) ==
    IF pipelines = <<>> THEN <<>>
    ELSE Stages(Head(pipelines)) \o AllStages(Tail(pipelines))

RECURSIVE StageMapFrom(_, _)
StageMapFrom(stageMap, stages) ==
    IF stages = <<>> THEN stageMap
    ELSE StageMapFrom(Put(stageMap, StringOf(Head(stages).id), Head(stages).name),
                      Tail(stages))

\* stageMap[stage.id] = stage.name, for every stage of every pipeline
StageMap(pipelines) == StageMapFrom(<<>>, AllStages(pipelines))

\* /api/summary: stageMap[opp.pipelineStageId] || "Unknown"
summaryStageName(stageMap, opp) ==
    Or(Get(stageMap, StringOf(opp.pipelineStageId)), Word("Unknown"))

\* /api/opportunities:
\* stageMap[opp.pipelineStageId] || opp.pipelineStageId || "Unknown"
opportunitiesStageName(stageMap, opp) ==
    Or(Or(Get(stageMap, StringOf(opp.pipelineStageId)), opp.pipelineStageId),
       Word("Unknown"))

StageName(r, stageMap, opp) ==
    IF r = "summary" THEN summaryStageName(stageMap, opp)
    ELSE opportunitiesStageName(stageMap, opp)

\* stageCounts[name] = (stageCounts[name] || 0) + 1, for every opportunity
RECURSIVE StageCountsFrom(_, _, _, _)
StageCountsFrom(stageCounts, r, stageMap, opportunities) ==
    LET n == Len(opportunities)
        h == n \div 2
        name == StringOf(StageName(r, stageMap, opportunities[1]))
        count == Plus(Or(Get(stageCounts, name), Num(0)), Num(1))
    IN  IF n = 0 THEN stageCounts
        ELSE IF n = 1 THEN Put(stageCounts, name, count)
        ELSE LET left == StageCountsFrom(stageCounts, r, stageMap,
                                         SubSeq(opportunities, 1, h))
             IN  IF Evaluated(left)
                 THEN StageCountsFrom(left, r, stageMap,
                                      SubSeq(opportunities, h + 1, n))
                 ELSE left

\* Object.entries(stageCounts).map(([name, value]) => ({ name, value }))
StageBreakdown(r, opportunities, pipelines) ==
    StageCountsFrom(<<>>, r, StageMap(pipelines), opportunities)

\* groupBy of lib/formatters: the callback of the reduce, applied to the
\* groups so far and one item. A value Object.prototype defines is found by
\* groups[value] || [], kept, and its push is not a function.
groupByStep(acc, item, key) ==
    LET value == StringOf(Or(Field(item, key), Word("Unknown")))
    IN  IF acc.threw THEN acc
        ELSE IF Owns(acc.groups, value)
             THEN [acc EXCEPT !.groups =
                      Put(@, value, Append(OwnValue(@, value), item))]
        ELSE IF Inherited(value) THEN [acc EXCEPT !.threw = TRUE]
        ELSE [acc EXCEPT !.groups = Put(@, value, <<item>>)]

\* items.reduce(callback, acc): the items are folded from left to right
\* (the list is taken by halves, which visits them in the same order); the
\* exception ends the fold.
RECURSIVE groupByFrom(_, _, _)
groupByFrom(acc, items, key) ==
    LET n == Len(items)
        h == n \div 2
        left == groupByFrom(acc, SubSeq(items, 1, h), key)
    IN  IF n = 0 THEN acc
        ELSE IF n = 1 THEN groupByStep(acc, items[1], key)
        ELSE IF left.threw THEN left
        ELSE groupByFrom(left, SubSeq(items, h + 1, n), key)

\* groupBy(items, key): the groups in insertion order, or a TypeError.
groupBy(items, key) == groupByFrom([threw |-> FALSE, groups |-> <<>>], items, key)

\* Object.entries(bySource).map(([name, items]) => ({name, value: items.length}))
SourceBreakdown(contacts) ==
    LET bySource == groupBy(contacts, "source").groups
    IN  [i \in 1..Len(bySource) |->
            [name |-> bySource[i].name, value |-> Num(Len(bySource[i].value))]]

\* contacts.filter((c) => isWithinDays(c.dateAdded, 30)).length
NewThisMonth(contacts, now) ==
    Len(SelectSeq(contacts, LAMBDA c : isWithinDays(c.dateAdded, 30, now)))

\* (a, b) => new Date(b.dateAdded) - new Date(a.dateAdded); the difference
\* is NaN when either Date is invalid, which sort reads as +0.
ByDateAddedDesc(a, b) ==
    LET x == NewDate(a.dateAdded)
        y == NewDate(b.dateAdded)
    IN  IF x.valid /\ y.valid THEN y.time - x.time ELSE 0

AllDatesValid(list) ==
    \A i \in 1..Len(list) : NewDate(list[i].dateAdded).valid

\* The comparator orders the list consistently: being equal is transitive.
\* An invalid date is equal to every date, so it is not as soon as two
\* valid dates differ next to an invalid one.
ConsistentComparator(list) ==
    \/ AllDatesValid(list)
    \/ \A i, j \in 1..Len(list) : ByDateAddedDesc(list[i], list[j]) = 0

\* The positions idx of a list whose times are t, those of the latest time
\* first, positions of one time in their old order.
RECURSIVE PositionsByTime(_, _, _)
PositionsByTime(times, idx, t) ==
    IF times = {} THEN <<>>
    ELSE LET latest == CHOOSE v \in times : \A w \in times : w <= v
         IN  SelectSeq(idx, LAMBDA i : t[i] = latest)
                \o PositionsByTime(times \ {latest}, idx, t)

\* The sort is stable: later dates first, equal dates in their old order.
\* (Every date of the list is valid here.)
StableSort(list) ==
    LET n == Len(list)
        t == [i \in 1..n |-> NewDate(list[i].dateAdded).time] \o <<>>
        pos == PositionsByTime({t[i] : i \in 1..n}, [i \in 1..n |-> i], t)
    IN  [k \in 1..n |-> list[pos[k]]]

Orderings(list) ==
    LET n == Len(list)
    IN  {[k \in 1..n |-> list[p[k]]] :
            p \in {q \in [1..n -> 1..n] : \A i, j \in 1..n : q[i] = q[j] => i = j}}

\* Array.prototype.sort(comparefn): the stable order when the comparator is
\* consistent, an order of the implementation's choosing when it is not.
SortOutcomes(list) ==
    IF AllDatesValid(list) THEN {StableSort(list)}
    ELSE IF ConsistentComparator(list) THEN {list}
    ELSE Orderings(list)

RecentLimit == 10

\* String.prototype.trim on a text whose blanks are " " symbols
RECURSIVE TrimLeft(_)
TrimLeft(s) == IF s # <<>> /\ Head(s) = " " THEN TrimLeft(Tail(s)) ELSE s

RECURSIVE TrimRight(_)
TrimRight(s) ==
    IF s # <<>> /\ s[Len(s)] = " " THEN TrimRight(SubSeq(s, 1, Len(s) - 1))
    ELSE s

Trim(s) == TrimRight(TrimLeft(s))

\* The display shape of a contact
DisplayContact(c) ==
    [id |-> c.id,
     name |-> Or(Str(Trim(StringOf(Or(Field(c, "firstName"), Str(<<>>)))
                           \o <<" ">>
                           \o StringOf(Or(Field(c, "lastName"), Str(<<>>))))),
                 Word("Unknown")),
     email |-> Or(Field(c, "email"), Word("N/A")),
     phone |-> Or(Field(c, "phone"), Word("N/A")),
     source |-> Or(Field(c, "source"), Word("Unknown")),
     dateAdded |-> Field(c, "dateAdded"),
     tags |-> IF "tags" \in DOMAIN c THEN c.tags ELSE <<>>]

\* sorted.slice(0, 10).map(...), sorted being what contacts.sort(...) gave
RecentContacts(sorted) ==
    [k \in 1..Min(RecentLimit, Len(sorted)) |-> DisplayContact(sorted[k])]

ContactsBody(res, now, sorted) ==
    LET contacts == res["contacts"]
    IN  [total |-> Len(contacts),
         newThisMonth |-> NewThisMonth(contacts, now),
         sourceBreakdown |-> SourceBreakdown(contacts),
         recentContacts |-> RecentContacts(sorted)]

OpportunitiesBody(res) ==
    LET opportunities == res["opportunities"]
    IN  [total |-> Len(opportunities),
         totalValue |-> TotalValue(opportunities),
         stageBreakdown |->
            StageBreakdown("opportunities", opportunities, res["pipelines"]),
         winRate |-> opportunitiesWinRate(opportunities),
         wonCount |-> StatusCount(opportunities, "won"),
         lostCount |-> StatusCount(opportunities, "lost"),
         avgDealSize |-> AvgDealSize(opportunities)]

ConversationsBody(res, now) ==
    LET conversations == res["conversations"]
    IN  [total |-> Len(conversations),
         openCount |-> OpenCount(conversations),
         closedCount |-> ClosedCount(conversations),
         recentCount |-> RecentCount(conversations, now),
         responseRate |-> ResponseRate(conversations)]

SummaryBody(res, now, sorted) ==
    LET opportunities == res["opportunities"]
        conversations == res["conversations"]
    IN  [contacts |-> ContactsBody(res, now, sorted),
         opportunities |->
            [total |-> Len(opportunities),
             totalValue |-> TotalValue(opportunities),
             stageBreakdown |->
                StageBreakdown("summary", opportunities, res["pipelines"]),
             winRate |-> summaryWinRate(opportunities),
             wonCount |-> StatusCount(opportunities, "won"),
             lostCount |-> StatusCount(opportunities, "lost"),
             avgDealSize |-> AvgDealSize(opportunities)],
         conversations |->
            [total |-> Len(conversations),
             openCount |-> OpenCount(conversations),
             closedCount |-> ClosedCount(conversations),
             responseRate |-> ResponseRate(conversations)]]

\* NextResponse.json({...}) at the end of the try block
SuccessResponse(r, res, now, sorted) ==
    CASE r = "summary" -> [status |-> 200, body |-> SummaryBody(res, now, sorted)]
      [] r = "contacts" -> [status |-> 200, body |-> ContactsBody(res, now, sorted)]
      [] r = "opportunities" -> [status |-> 200, body |-> OpportunitiesBody(res)]
      [] r = "conversations" -> [status |-> 200, body |-> ConversationsBody(res, now)]

ErrorTitle(r) ==
    CASE r = "summary" -> "Failed to fetch summary"
      [] r = "contacts" -> "Failed to fetch contacts"
      [] r = "opportunities" -> "Failed to fetch opportunities"
      [] r = "conversations" -> "Failed to fetch conversations"

\* An error body sent without the status option.
ErrorResponseNoStatus(r, err) ==
    [status |-> 200,
     body |-> [error |-> ErrorTitle(r),
               details |-> [status |-> err.status, text |-> err.text]]]

\* NextResponse.json({ error, details: error.message }, { status: 500 })
ErrorResponse(r, err) ==
    [status |-> 500,
     body |-> [error |-> ErrorTitle(r),
               details |-> [status |-> err.status, text |-> err.text]]]

\* The TypeError groupBy raises inside the try block.
TypeError ==
    [none |-> FALSE, status |-> Absent,
     text |-> "groups[value].push is not a function"]

HasContacts(r) == "contacts" \in RouteFetchers(r)

\* The statements of the try block after the await raise an exception.
Throws(r, res) == HasContacts(r) /\ groupBy(res["contacts"], "source").threw

\* What contacts.sort(...) may leave in the array, on the routes that sort.
Sorted(r, res) ==
    IF HasContacts(r) /\ ~Throws(r, res) THEN SortOutcomes(res["contacts"])
    ELSE {<<>>}

\* The contacts array when the handler is done: sorted in place by
\* contacts.sort(...) if the handler got that far, as fetched if groupBy
\* threw before.
ArrayLeft(r, res, sorted) ==
    IF ~HasContacts(r) THEN NoResult
    ELSE IF Throws(r, res) THEN res["contacts"]
    ELSE sorted

\* What new Date() reads on the routes that read the clock.
Readings(r) == IF r = "opportunities" THEN {clock} ELSE ClockReadings

\* The handler from the fulfilment of its await to its return.
HandlerResponse(r, res, now, sorted) ==
    IF Throws(r, res) THEN ErrorResponse(r, TypeError)
    ELSE SuccessResponse(r, res, now, sorted)

\* ------------------------------------------------------------------- Init
Init ==
    /\ route \in Routes
    /\ hpc = "init"
    /\ rejection = NoError
    /\ httpResponse = NoResponse
    /\ fpc = [f \in Fetchers |-> "idle"]
    /\ allItems = [f \in Fetchers |-> <<>>]
    /\ page = [f \in Fetchers |-> 1]
    /\ startAfterId = [f \in Fetchers |-> Null]
    /\ hasMore = [f \in Fetchers |-> TRUE]
    /\ response = [f \in Fetchers |-> NoBody]
    /\ reqs = [f \in Fetchers |-> <<>>]
    /\ pagesRcvd = [f \in Fetchers |-> <<>>]
    /\ maxTotal = [f \in Fetchers |-> 0]
    /\ result = [f \in Fetchers |-> NoResult]
    /\ error = [f \in Fetchers |-> NoError]
    /\ clock = NoClock
    /\ call = NoCall
    /\ contactsArray = NoResult
    /\ dashboardPage = InitialPage

\* ---------------------------------------------------------------- actions
\* The handler up to its await: Promise.all([...]) calls every fetcher of the
\* route, and each runs up to the await of its first request.
GET ==
    /\ hpc = "init"
    /\ hpc' = "awaiting"
    /\ fpc' = [f \in Fetchers |->
                 IF f \in RouteFetchers(route) THEN "inflight" ELSE "idle"]
    /\ allItems' = [f \in Fetchers |-> <<>>]
    /\ page' = [f \in Fetchers |-> 1]
    /\ startAfterId' = [f \in Fetchers |-> Null]
    /\ hasMore' = [f \in Fetchers |-> TRUE]
    /\ reqs' = [f \in Fetchers |->
                  IF f \in RouteFetchers(route) THEN <<FirstRequest(f)>> ELSE <<>>]
    /\ UNCHANGED <<dashboardPage, contactsArray, clock, call, route, rejection, httpResponse, response, pagesRcvd,
                   maxTotal, result, error>>

\* One turn of the while loop of fetchAllPagesPost, from the arrival of the
\* response to the next await (or to the return).
PostTurn(f, resp) ==
    LET items == ItemsOf(resp)
        all == PushAll(allItems[f], items)
        total == EffTotal(resp)
        stop == PostStop(all, items, total)
    IN  /\ response' = [response EXCEPT ![f] = resp]
        /\ pagesRcvd' = [pagesRcvd EXCEPT ![f] = Append(@, items)]
        /\ maxTotal' = [maxTotal EXCEPT ![f] = Max(@, total)]
        /\ allItems' = [allItems EXCEPT ![f] = all]
        /\ hasMore' = [hasMore EXCEPT ![f] = ~stop]
        /\ page' = [page EXCEPT ![f] = IF stop THEN @ ELSE NextPage(@)]
        /\ reqs' = [reqs EXCEPT ![f] =
                       IF stop THEN @ ELSE Append(@, PostRequest(page'[f]))]
        /\ fpc' = [fpc EXCEPT ![f] = IF stop THEN "returned" ELSE "inflight"]
        /\ result' = [result EXCEPT ![f] = IF stop THEN all ELSE @]
        /\ UNCHANGED <<dashboardPage, contactsArray, clock, call, route, hpc, rejection, httpResponse, startAfterId, error>>

fetchAllPagesPost(f) ==
    /\ f \in PostFetchers
    /\ fpc[f] = "inflight"
    /\ Len(pagesRcvd[f]) < MaxReq
    /\ \E d \in DataFields(f, route) :
         \E t \in TotalFields(Len(allItems[f]) + Len(d.data), route) :
            PostTurn(f, Body(d, t, NoSignal))

\* One turn of the while loop of fetchAllPagesGet.
GetTurn(f, resp) ==
    LET items == ItemsOf(resp)
        all == PushAll(allItems[f], items)
        more == GetMore(items, resp)
    IN  /\ response' = [response EXCEPT ![f] = resp]
        /\ pagesRcvd' = [pagesRcvd EXCEPT ![f] = Append(@, items)]
        /\ allItems' = [allItems EXCEPT ![f] = all]
        /\ hasMore' = [hasMore EXCEPT ![f] = more]
        /\ startAfterId' = [startAfterId EXCEPT ![f] =
                               IF more THEN LastId(items) ELSE @]
        /\ reqs' = [reqs EXCEPT ![f] =
                       IF more THEN Append(@, GetRequest(startAfterId'[f])) ELSE @]
        /\ fpc' = [fpc EXCEPT ![f] = IF more THEN "inflight" ELSE "returned"]
        /\ result' = [result EXCEPT ![f] = IF more THEN @ ELSE all]
        /\ UNCHANGED <<dashboardPage, contactsArray, clock, call, route, hpc, rejection, httpResponse, page, maxTotal,
                       error>>

fetchAllPagesGet(f) ==
    /\ f \in GetFetchers
    /\ fpc[f] = "inflight"
    /\ Len(pagesRcvd[f]) < MaxReq
    /\ \E d \in DataFields(f, route) : \E s \in SignalFields(route) :
            GetTurn(f, Body(d, NoTotals, s))

\* getPipelines after its single await: return response.pipelines || [].
getPipelines ==
    /\ fpc["pipelines"] = "inflight"
    /\ \E d \in {[hasData |-> TRUE, data |-> <<>>],
                  [hasData |-> TRUE, data |-> <<Pipeline(1)>>],
                  [hasData |-> FALSE, data |-> <<>>]} :
         LET resp == Body(d, NoTotals, NoSignal)
         IN  /\ response' = [response EXCEPT !["pipelines"] = resp]
             /\ pagesRcvd' = [pagesRcvd EXCEPT !["pipelines"] = Append(@, ItemsOf(resp))]
             /\ fpc' = [fpc EXCEPT !["pipelines"] = "returned"]
             /\ result' = [result EXCEPT !["pipelines"] = ItemsOf(resp)]
    /\ UNCHANGED <<dashboardPage, contactsArray, clock, call, route, hpc, rejection, httpResponse, allItems, page,
                   startAfterId, hasMore, reqs, maxTotal, error>>

\* A fetcher that sends the failed request once more before giving up.
requestFailsRetry(f) ==
    /\ fpc[f] = "inflight"
    /\ Len(pagesRcvd[f]) < MaxReq
    /\ IF Len(reqs[f]) = Len(pagesRcvd[f]) + 1
       THEN /\ reqs' = [reqs EXCEPT ![f] = Append(@, @[Len(@)])]
            /\ UNCHANGED <<fpc, error, rejection>>
       ELSE /\ \E e \in Failures(route) :
                 /\ error' = [error EXCEPT ![f] = interceptError(e)]
                 /\ rejection' = IF rejection.none THEN interceptError(e)
                                 ELSE rejection
            /\ fpc' = [fpc EXCEPT ![f] = "thrown"]
            /\ UNCHANGED reqs
    /\ UNCHANGED <<dashboardPage, contactsArray, clock, call, route, hpc, httpResponse, allItems, page, startAfterId,
                   hasMore, response, pagesRcvd, maxTotal, result>>

\* A request in flight fails: the interceptor throws, the awaiting fetcher
\* does not catch, so its promise rejects; Promise.all rejects with the
\* first reason it is given.
requestFails(f) ==
    /\ fpc[f] = "inflight"
    /\ Len(pagesRcvd[f]) < MaxReq
    /\ \E e \in Failures(route) :
         /\ error' = [error EXCEPT ![f] = interceptError(e)]
         /\ rejection' = IF rejection.none THEN interceptError(e) ELSE rejection
    /\ fpc' = [fpc EXCEPT ![f] = "thrown"]
    /\ UNCHANGED <<dashboardPage, contactsArray, clock, call, route, hpc, httpResponse, allItems, page, startAfterId,
                   hasMore, response, reqs, pagesRcvd, maxTotal, result>>

\* The handler after the await, when Promise.all fulfilled.
GETrespond ==
    /\ hpc = "awaiting"
    /\ \A f \in RouteFetchers(route) : fpc[f] = "returned"
    /\ hpc' = "responded"
    /\ \E t \in Readings(route) : \E sorted \in Sorted(route, result) :
         /\ clock' = t
         /\ httpResponse' = HandlerResponse(route, result, t, sorted)
         /\ contactsArray' = ArrayLeft(route, result, sorted)
    /\ UNCHANGED <<dashboardPage, call, route, rejection, fpc, allItems, page,
                   startAfterId, hasMore, response, reqs, pagesRcvd, maxTotal,
                   result, error>>

\* A catch block reached only when every fetch has settled.
GETcatchSettled ==
    /\ hpc = "awaiting"
    /\ ~rejection.none
    /\ \A f \in RouteFetchers(route) : fpc[f] # "inflight"
    /\ hpc' = "responded"
    /\ httpResponse' = ErrorResponse(route, rejection)
    /\ UNCHANGED <<dashboardPage, contactsArray, clock, call, route, rejection, fpc, allItems, page, startAfterId,
                   hasMore, response, reqs, pagesRcvd, maxTotal, result, error>>

\* The handler's catch block, when Promise.all rejected.
GETcatch ==
    /\ hpc = "awaiting"
    /\ ~rejection.none
    /\ hpc' = "responded"
    /\ httpResponse' = ErrorResponse(route, rejection)
    /\ UNCHANGED <<dashboardPage, contactsArray, clock, call, route, rejection, fpc, allItems, page, startAfterId,
                   hasMore, response, reqs, pagesRcvd, maxTotal, result, error>>

Next ==
    \/ GET
    \/ \E f \in Fetchers : fetchAllPagesPost(f)
    \/ \E f \in Fetchers : fetchAllPagesGet(f)
    \/ getPipelines
    \/ \E f \in Fetchers : requestFails(f)
    \/ GETrespond
    \/ GETcatch

Spec == Init /\ [][Next]_vars

\* The event loop runs every continuation that is ready, and every request
\* in flight is answered or fails (timeout: 15000).
FairSpec == Spec /\ WF_vars(Next)

\* ------------------------------------------- the aggregation on its own
\* The handlers right after their await, with fetched lists drawn freely.
\* One resource at a time is in focus and its list is every list of at most
\* MaxList records of the kind below; the other lists of the route are all
\* empty or all hold one record.
AggStatuses == {"won", "lost", "open", "abandoned"}

\* Monetary values: numbers above, at and below zero, null, none, a numeric
\* string and a string that is not numeric.
AggValues ==
    {Num(50), Num(-50), NullValue, Undefined, Str(<<"5", "0">>), Word("abc")}

AggOpportunity(s, v, g) ==
    [id |-> 1, status |-> s, monetaryValue |-> v, pipelineStageId |-> g]

ValueOpportunities ==
    {AggOpportunity(s, Num(100), Word("stage1")) : s \in AggStatuses}
        \cup {AggOpportunity("open", v, Word("stage1")) : v \in AggValues}
        \cup {AggOpportunity("lost", Num(0), Word("stage1"))}

\* Stage ids: two a pipeline may define, none, and a name of Object.prototype.
StageOpportunities ==
    {AggOpportunity("won", Num(100), g) :
        g \in {Word("stage1"), Word("stage2"), Undefined, Word("constructor")}}

AggStage(i, n) == [id |-> Word(i), name |-> Word(n)]

\* Pipelines: none; one stage; no stages key; two stages of one name; a
\* stage named as Object.prototype names a function.
AggPipelines ==
    {<<>>,
     <<Pipeline(1)>>,
     <<[id |-> 2]>>,
     <<[id |-> 3, stages |-> <<AggStage("stage1", "Won"), AggStage("stage2", "Won")>>]>>,
     <<[id |-> 4, stages |-> <<AggStage("stage1", "constructor")>>]>>}

AggSources ==
    {Undefined, NullValue, Str(<<>>), Word("Facebook"), Word("Google"),
     Word("Unknown"), Word("constructor")}

SourceContacts ==
    {[id |-> 1, source |-> v, dateAdded |-> Str(Iso(2024, 6, 1))] :
        v \in AggSources}

AggDates ==
    {Undefined, NullValue, Str(<<>>), Word("soon"), Str(Iso(2024, 1, 1)),
     Str(Iso(2024, 5, 16)), Str(Iso(2024, 6, 1))}

DateContacts ==
    {[id |-> 1, source |-> Word("Facebook"), dateAdded |-> d] : d \in AggDates}

AggConversations ==
    {[id |-> 1, unreadCount |-> u, status |-> s, lastMessageType |-> t,
      lastMessageDate |-> IF t = "TYPE_OUTBOUND" THEN Str(Iso(2024, 6, 1))
                          ELSE Undefined,
      dateAdded |-> Str(Iso(2024, 1, 1))] :
        u \in {0, 2}, s \in {"open", "closed"},
        t \in {"TYPE_OUTBOUND", "TYPE_INBOUND"}}

Focuses == {"values", "stages", "sources", "dates", "conversations"}

FocusFetcher(focus) ==
    CASE focus \in {"values", "stages"} -> "opportunities"
      [] focus \in {"sources", "dates"} -> "contacts"
      [] OTHER -> "conversations"

FocusRecords(focus) ==
    CASE focus = "values" -> ValueOpportunities
      [] focus = "stages" -> StageOpportunities
      [] focus = "sources" -> SourceContacts
      [] focus = "dates" -> DateContacts
      [] OTHER -> AggConversations

AggLists(focus) == UNION {[1..n -> FocusRecords(focus)] : n \in 0..MaxList}

InitAgg ==
    /\ route \in Routes
    /\ hpc = "awaiting"
    /\ rejection = NoError
    /\ httpResponse = NoResponse
    /\ fpc = [f \in Fetchers |->
                IF f \in RouteFetchers(route) THEN "returned" ELSE "idle"]
    /\ \E focus \in {g \in Focuses : FocusFetcher(g) \in RouteFetchers(route)} :
       \E rich \in AggLists(focus) : \E others \in BOOLEAN :
       \E p \in IF focus = "stages" THEN AggPipelines
                ELSE {IF others THEN <<Pipeline(1)>> ELSE <<>>} :
            result = [f \in Fetchers |->
                        IF f \notin RouteFetchers(route) THEN NoResult
                        ELSE IF f = FocusFetcher(focus) THEN rich
                        ELSE IF f = "pipelines" THEN p
                        ELSE IF others THEN <<Record(f, 1)>>
                        ELSE <<>>]
    /\ allItems = [f \in Fetchers |->
                     IF f \in RouteFetchers(route) THEN result[f] ELSE <<>>]
    /\ page = [f \in Fetchers |-> 1]
    /\ startAfterId = [f \in Fetchers |-> Null]
    /\ hasMore = [f \in Fetchers |-> f \notin RouteFetchers(route)]
    /\ response = [f \in Fetchers |-> NoBody]
    /\ reqs = [f \in Fetchers |-> <<>>]
    /\ pagesRcvd = [f \in Fetchers |-> <<>>]
    /\ maxTotal = [f \in Fetchers |-> 0]
    /\ error = [f \in Fetchers |-> NoError]
    /\ clock = NoClock
    /\ call = NoCall
    /\ contactsArray = NoResult
    /\ dashboardPage = InitialPage

NextAgg == GETrespond

SpecAgg == InitAgg /\ [][NextAgg]_vars

\* --------------------------------- the drains against an orderly server
\* /api/contacts and /api/opportunities against a provider that holds the
\* records 1..n, reports n as meta.total in every response and answers a
\* request for page k of size l with the records l(k-1)+1 .. min(lk, n).
Holdings == 0..MaxHeld

OrderlyPage(f, n, req) ==
    LET first == req.limit * (req.page - 1) + 1
        count == Max(0, Min(req.limit, n - first + 1))
    IN  IF req.page < 1 THEN <<>> ELSE Slice(f, first, count) \o <<>>

OrderlyBody(f, n, req) ==
    Body([hasData |-> TRUE, data |-> OrderlyPage(f, n, req)],
         [metaTotal |-> n, total |-> Absent], NoSignal)

InitOrderly ==
    /\ route \in {"contacts", "opportunities"}
    /\ hpc = "init"
    /\ rejection = NoError
    /\ httpResponse = NoResponse
    /\ fpc = [f \in Fetchers |-> "idle"]
    /\ allItems = [f \in Fetchers |-> <<>>]
    /\ page = [f \in Fetchers |-> 1]
    /\ startAfterId = [f \in Fetchers |-> Null]
    /\ hasMore = [f \in Fetchers |-> TRUE]
    /\ response = [f \in Fetchers |-> NoBody]
    /\ reqs = [f \in Fetchers |-> <<>>]
    /\ pagesRcvd = [f \in Fetchers |-> <<>>]
    /\ maxTotal = [f \in Fetchers |-> 0]
    /\ result = [f \in Fetchers |-> NoResult]
    /\ error = [f \in Fetchers |-> NoError]
    /\ clock = NoClock
    /\ call = NoCall
    /\ contactsArray = NoResult
    /\ dashboardPage = InitialPage

\* One turn of fetchAllPagesPost, the request in flight answered by the
\* orderly server: the first answer fixes what it holds, the later ones
\* report the same total.
fetchAllPagesPostOrderly(f) ==
    /\ f \in PostFetchers
    /\ fpc[f] = "inflight"
    /\ \E n \in IF pagesRcvd[f] = <<>> THEN Holdings
                 ELSE {response[f].metaTotal} :
         PostTurn(f, OrderlyBody(f, n, reqs[f][Len(reqs[f])]))

NextOrderly ==
    \/ GET
    \/ \E f \in Fetchers : fetchAllPagesPostOrderly(f)
    \/ getPipelines
    \/ GETrespond

SpecOrderly == InitOrderly /\ [][NextOrderly]_vars

\* ------------------------------------------------- the dashboard page
\* DashboardPage in the browser. A click is handled, and the render and the
\* effects it causes run, before anything else; a state update made by
\* fetchSummary is rendered in a later step (Render), so what is on screen
\* may lag behind the state. A run of fetchSummary is a record: where it is
\* (pc), how its request ended, and how many runs were in flight when it
\* started.
DATE_RANGES == {"week", "month", "quarter"}

\* How a call of fetch("/api/summary") may end: a 2xx response, another
\* response, or a rejection.
FetchOutcomes == {"ok", "notOk", "rejected"}

\* err.message in the catch block.
CaughtMessage(outcome) ==
    CASE outcome = "notOk" -> "API returned 500"
      [] outcome = "rejected" -> "Failed to fetch"
      [] OTHER -> "Unexpected end of JSON input"

InFlight(p) == {k \in 1..Len(p.runs) : p.runs[k].pc # "done"}

\* The three returns of the component.
Rendered(p) ==
    IF p.loading THEN "skeleton"
    ELSE IF p.error # "" THEN "error"
    ELSE "dashboard"

\* fetchSummary() up to its first await: setLoading(true), setError(null),
\* fetch sent.
StartRun(p) ==
    [p EXCEPT !.loading = TRUE, !.error = "",
              !.runs = Append(@, [pc |-> "fetching", outcome |-> "none",
                                  concurrent |-> Cardinality(InFlight(p))])]

\* The effect with the dependency list [dateRange]: run after the first
\* render, and after a render in which dateRange differs from before.
AfterRender(old, p) ==
    IF p.dateRange # old.dateRange THEN StartRun(p) ELSE p

\* The updater of the "Try Again" button: (d) => d.
SameRange(d) == d

PageUnchanged ==
    UNCHANGED <<route, hpc, rejection, httpResponse, fpc, allItems, page,
                startAfterId, hasMore, response, reqs, pagesRcvd, maxTotal,
                result, error, clock, call, contactsArray>>

\* The component is mounted: the effect runs for the first time.
Mount ==
    /\ ~dashboardPage.mounted
    /\ dashboardPage' = [StartRun(dashboardPage) EXCEPT !.mounted = TRUE]
    /\ PageUnchanged

\* React renders the pending state updates.
Render ==
    /\ dashboardPage.view # Rendered(dashboardPage)
    /\ dashboardPage' = [dashboardPage EXCEPT !.view = Rendered(dashboardPage)]
    /\ PageUnchanged

\* A click on a button of the date range selector of BrandingHeader, which
\* is on screen in the dashboard view only: setDateRange(range.value).
SelectRange(r) ==
    /\ dashboardPage.view = "dashboard"
    /\ Len(dashboardPage.runs) < MaxRuns
    /\ dashboardPage' =
          AfterRender(dashboardPage, [dashboardPage EXCEPT !.dateRange = r])
    /\ PageUnchanged

\* A click on "Try Again", which is on screen in the error view only:
\* setDateRange((d) => d).
TryAgain ==
    /\ dashboardPage.view = "error"
    /\ dashboardPage.tries < MaxTries
    /\ dashboardPage' =
          AfterRender(dashboardPage,
                      [dashboardPage EXCEPT !.dateRange = SameRange(@),
                                            !.tries = @ + 1])
    /\ PageUnchanged

\* The fetch of run k settles: on a 2xx response the run goes on to await
\* res.json(); otherwise the catch block sets error and the finally block
\* clears loading.
FetchSettles(k) ==
    /\ k \in 1..Len(dashboardPage.runs)
    /\ dashboardPage.runs[k].pc = "fetching"
    /\ \E o \in FetchOutcomes :
         dashboardPage' =
            IF o = "ok"
            THEN [dashboardPage EXCEPT !.runs[k].pc = "parsing",
                                       !.runs[k].outcome = o]
            ELSE [dashboardPage EXCEPT !.runs[k].pc = "done",
                                       !.runs[k].outcome = o,
                                       !.error = CaughtMessage(o),
                                       !.loading = FALSE]
    /\ PageUnchanged

\* res.json() of run k settles: setData(json), or the catch block when the
\* body is not JSON; then the finally block.
JsonSettles(k) ==
    /\ k \in 1..Len(dashboardPage.runs)
    /\ dashboardPage.runs[k].pc = "parsing"
    /\ \E good \in BOOLEAN :
         dashboardPage' =
            IF good
            THEN [dashboardPage EXCEPT !.runs[k].pc = "done",
                                       !.data = k,
                                       !.loading = FALSE]
            ELSE [dashboardPage EXCEPT !.runs[k].pc = "done",
                                       !.runs[k].outcome = "notJson",
                                       !.error = CaughtMessage("notJson"),
                                       !.loading = FALSE]
    /\ PageUnchanged

NextPageStep ==
    \/ Mount
    \/ Render
    \/ \E r \in DATE_RANGES : SelectRange(r)
    \/ TryAgain
    \/ \E k \in 1..MaxRuns : FetchSettles(k)
    \/ \E k \in 1..MaxRuns : JsonSettles(k)

InitPage == Init /\ route = "summary"

SpecPage == InitPage /\ [][NextPageStep]_vars

\* ------------------------------------- single functions on their own
\* One call of isWithinDays, of groupBy or of the error branch of the
\* response interceptor, its arguments drawn freely.
\* Timestamps: none, null, the empty string, a word, a number, dates that do
\* not exist, and dates and times around the cutoffs of the clock readings.
Timestamps ==
    {Undefined, NullValue, Str(<<>>), Word("soon"), Num(1717200),
     Str(Iso(2024, 2, 30)), Str(Iso(2024, 13, 1)), Str(IsoAt(2024, 6, 1, 24, 0)),
     Str(Iso(2024, 1, 1)), Str(Iso(2024, 5, 15)), Str(Iso(2024, 5, 16)),
     Str(IsoAt(2024, 5, 16, 12, 0)), Str(IsoAt(2024, 5, 16, 12, 1)),
     Str(Iso(2024, 5, 17)), Str(Iso(2024, 6, 1)), Str(Iso(2024, 6, 14)),
     Str(Iso(2024, 6, 15)), Str(IsoAt(2024, 6, 15, 12, 1)), Str(Iso(2024, 7, 1))}

DayCounts == {0, 1, 30, 31}

GroupItems ==
    {[id |-> 1, source |-> v] : v \in AggSources}
        \cup {[id |-> 1, source |-> Word("Facebook"), type |-> Word("lead")],
              [id |-> 1]}

GroupKeys == {"source", "type"}

\* Failed calls as axios hands them to the interceptor: a response with a
\* status outside 2xx, whose body carries message, msg, both or neither (an
\* empty string standing for a field that is missing or empty), or no
\* response at all (timeout, network failure).
HttpFailures ==
    {[hasResponse |-> TRUE, status |-> st, dataMessage |-> m, dataMsg |-> g,
      text |-> "Request failed"] :
        st \in {400, 401, 404, 429, 500, 503},
        m \in {"", "Internal error"}, g \in {"", "Unauthorized"}}

NoResponseFailures ==
    {[hasResponse |-> FALSE, status |-> Absent, dataMessage |-> "",
      dataMsg |-> "", text |-> x] :
        x \in {"timeout of 15000ms exceeded", "Network Error"}}

InterceptFailures == HttpFailures \cup NoResponseFailures

InitFmt ==
    /\ route = "contacts"
    /\ hpc = "init"
    /\ rejection = NoError
    /\ httpResponse = NoResponse
    /\ fpc = [f \in Fetchers |-> "idle"]
    /\ allItems = [f \in Fetchers |-> <<>>]
    /\ page = [f \in Fetchers |-> 1]
    /\ startAfterId = [f \in Fetchers |-> Null]
    /\ hasMore = [f \in Fetchers |-> TRUE]
    /\ response = [f \in Fetchers |-> NoBody]
    /\ reqs = [f \in Fetchers |-> <<>>]
    /\ pagesRcvd = [f \in Fetchers |-> <<>>]
    /\ maxTotal = [f \in Fetchers |-> 0]
    /\ result = [f \in Fetchers |-> NoResult]
    /\ error = [f \in Fetchers |-> NoError]
    /\ clock = NoClock
    /\ contactsArray = NoResult
    /\ dashboardPage = InitialPage
    /\ \/ \E ts \in Timestamps : \E n \in DayCounts :
            call = [fn |-> "isWithinDays", pc |-> "called",
                    isoString |-> ts, days |-> n, ret |-> FALSE]
       \/ \E n \in 0..MaxList : \E items \in [1..n -> GroupItems] :
          \E key \in GroupKeys :
            call = [fn |-> "groupBy", pc |-> "called",
                    items |-> items, key |-> key, ret |-> <<>>]
       \/ \E e \in InterceptFailures :
            call = [fn |-> "interceptor", pc |-> "called", failure |-> e,
                    thrown |-> NoError, message |-> <<>>]

\* isWithinDays runs: it reads the clock once and returns.
CallIsWithinDays ==
    /\ call.fn = "isWithinDays"
    /\ call.pc = "called"
    /\ \E t \in ClockReadings :
         /\ clock' = t
         /\ call' = [call EXCEPT !.pc = "returned",
                                 !.ret = isWithinDays(call.isoString, call.days, t)]
    /\ UNCHANGED <<dashboardPage, contactsArray, route, hpc, rejection, httpResponse, fpc,
                   allItems, page,
                   startAfterId, hasMore, response, reqs, pagesRcvd, maxTotal,
                   result, error>>

\* groupBy runs: it returns the groups or raises the TypeError.
CallGroupBy ==
    /\ call.fn = "groupBy"
    /\ call.pc = "called"
    /\ LET g == groupBy(call.items, call.key)
       IN  call' = IF g.threw THEN [call EXCEPT !.pc = "threw"]
                   ELSE [call EXCEPT !.pc = "returned", !.ret = g.groups]
    /\ UNCHANGED <<dashboardPage, contactsArray, route, hpc, rejection, httpResponse, fpc,
                   allItems, page,
                   startAfterId, hasMore, response, reqs, pagesRcvd, maxTotal,
                   result, error, clock>>

\* The interceptor's error branch runs: it throws the Error it builds.
CallInterceptor ==
    /\ call.fn = "interceptor"
    /\ call.pc = "called"
    /\ LET err == interceptError(call.failure)
       IN  call' = [call EXCEPT !.pc = "threw", !.thrown = err,
                                !.message = ErrorMessage(err.status, err.text)]
    /\ UNCHANGED <<dashboardPage, contactsArray, route, hpc, rejection, httpResponse, fpc,
                   allItems, page,
                   startAfterId, hasMore, response, reqs, pagesRcvd, maxTotal,
                   result, error, clock>>

NextFmt == CallIsWithinDays \/ CallGroupBy \/ CallInterceptor

SpecFmt == InitFmt /\ [][NextFmt]_vars

\* ------------------------------------------------------------- properties
Paginated == PostFetchers \cup GetFetchers

RECURSIVE Concat(_)
Concat(ss) == IF ss = <<>> THEN <<>> ELSE Head(ss) \o Concat(Tail(ss))

\* An orderly paging server: it holds the records with ids 1..n, in that
\* order, and serves them ps at a time.
Table(f, n) == Slice(f, 1, n)

PageOfTable(f, n, ps, k) ==
    Slice(f, ps * (k - 1) + 1, Max(0, Min(ps, n - ps * (k - 1))))

AfterCursor(f, n, ps, c) ==
    LET from == IF c = Absent THEN 1 ELSE c + 1
    IN  Slice(f, from, Max(0, Min(ps, n - from + 1)))

Signals(resp) == resp.nextPageUrl \/ resp.nextPage

\* Every body the drain of f received so far is what that server answers to
\* the request it was sent for (Cursor-GET: and it signalled a next page
\* exactly while records remained).
ServedPageByPage(f, n, ps) ==
    /\ \A k \in 1..Len(pagesRcvd[f]) :
          pagesRcvd[f][k] =
            IF f \in PostFetchers THEN PageOfTable(f, n, ps, reqs[f][k].page)
            ELSE AfterCursor(f, n, ps, reqs[f][k].startAfterId)
    /\ f \in GetFetchers /\ pagesRcvd[f] # <<>> =>
          (Signals(response[f]) <=> Len(allItems[f]) < n)

\* C1: a list a resource fetcher returns is never a proper prefix of the
\* records of a server that serves them page by page: it holds all of them.
C1_NoPartialResult ==
    \A f \in Paginated : \A n \in 0..MaxId : \A ps \in 1..MaxPageLen :
        fpc[f] = "returned" /\ ServedPageByPage(f, n, ps)
            => result[f] = Table(f, n)

C3_Deduplicated ==
    \A f \in Paginated :
        fpc[f] = "returned" =>
            \A i, j \in 1..Len(result[f]) :
                i < j => result[f][i].id # result[f][j].id

\* The response received last satisfies the strategy's stop condition.
StopObserved(f) ==
    /\ pagesRcvd[f] # <<>>
    /\ LET items == pagesRcvd[f][Len(pagesRcvd[f])]
       IN  IF f \in PostFetchers
           THEN Len(allItems[f]) >= EffTotal(response[f]) \/ items = <<>>
           ELSE items = <<>> \/ ~Signals(response[f])

NoRequestAfterStop(f) ==
    StopObserved(f) =>
        fpc[f] = "returned" /\ Len(reqs[f]) = Len(pagesRcvd[f])

\* C4 as claimed: no request follows a response that satisfies the stop
\* condition, and no two requests of one drain carry the same page index
\* or the same cursor.
C4_NoPageRequestedTwice ==
    \A f \in Paginated :
        /\ NoRequestAfterStop(f)
        /\ \A i, j \in 1..Len(reqs[f]) : i < j => reqs[f][i] # reqs[f][j]

\* The cursor request k of a Cursor-GET drain is bound to carry: none for
\* the first, else the id of the last item of page k-1, none if that item
\* has no id.
CursorDue(f, k) ==
    IF k = 1 THEN Absent
    ELSE LET id == pagesRcvd[f][k - 1][Len(pagesRcvd[f][k - 1])].id
         IN  IF id = 0 THEN Absent ELSE id

\* C4 as amended: no request follows a response that satisfies the stop
\* condition; Page-POST never requests a page index twice; Cursor-GET
\* repeats a cursor exactly when the server ended two pages with the same
\* id, or ended a page with a record without id.
C4_NoRequestAfterStop ==
    \A f \in Paginated :
        /\ NoRequestAfterStop(f)
        /\ f \in PostFetchers =>
              \A i, j \in 1..Len(reqs[f]) : i < j => reqs[f][i] # reqs[f][j]
        /\ f \in GetFetchers =>
              \A i, j \in 1..Len(reqs[f]) :
                  i < j => (reqs[f][i] = reqs[f][j]
                              <=> CursorDue(f, i) = CursorDue(f, j))

\* A Cursor-GET drain that returned after three requests, the last two
\* with the same cursor.
C4_Witness ==
    \E f \in GetFetchers :
        /\ fpc[f] = "returned"
        /\ Len(reqs[f]) = 3
        /\ reqs[f][2] = reqs[f][3]
        /\ reqs[f][2].startAfterId # Absent

\* C5: the list a pagination strategy returns (and, at every moment, the
\* list it has accumulated) is the concatenation of the item arrays of the
\* pages it received, in the order of the requests, nothing dropped,
\* reordered or inserted.
C5_ResultIsConcatenation ==
    \A f \in Paginated :
        /\ allItems[f] = Concat(pagesRcvd[f])
        /\ fpc[f] = "returned" => result[f] = Concat(pagesRcvd[f])

\* A drain returned after two non-empty pages that differ.
C5_Witness ==
    \E f \in Paginated :
        /\ fpc[f] = "returned"
        /\ Len(pagesRcvd[f]) = 2
        /\ pagesRcvd[f][1] # <<>>
        /\ pagesRcvd[f][2] # <<>>
        /\ pagesRcvd[f][1] # pagesRcvd[f][2]

\* C6: a drain whose first page is empty (Page-POST: whatever total is
\* reported, 0 and none included; Cursor-GET: whatever the next-page signal)
\* issues exactly one request and returns the empty list, no error raised.
C6_EmptyFirstPage ==
    \A f \in Paginated :
        pagesRcvd[f] # <<>> /\ pagesRcvd[f][1] = <<>> =>
            /\ fpc[f] = "returned"
            /\ Len(reqs[f]) = 1
            /\ result[f] = <<>>
            /\ error[f].none

\* On the summary route the contacts drain got an empty page with no total
\* and the conversations drain an empty page that signals a next page.
C6_Witness ==
    /\ fpc["contacts"] = "returned"
    /\ pagesRcvd["contacts"] = << <<>> >>
    /\ EffTotal(response["contacts"]) = 0
    /\ fpc["conversations"] = "returned"
    /\ pagesRcvd["conversations"] = << <<>> >>
    /\ Signals(response["conversations"])

\* C7: fetchAllPagesGet, when its first response carries neither
\* meta.nextPageUrl nor meta.nextPage, issues exactly one GET and returns
\* the items of that page, however many they are.
C7_NoSignalOneRequest ==
    \A f \in GetFetchers :
        Len(pagesRcvd[f]) = 1 /\ ~Signals(response[f]) =>
            /\ fpc[f] = "returned"
            /\ Len(reqs[f]) = 1
            /\ result[f] = pagesRcvd[f][1]

\* The first page was a full page of Limit items without a signal.
C7_Witness ==
    \E f \in GetFetchers :
        /\ fpc[f] = "returned"
        /\ Len(reqs[f]) = 1
        /\ Len(result[f]) = Limit
        /\ ~Signals(response[f])

Thrown == {f \in RouteFetchers(route) : fpc[f] = "thrown"}

\* C8: on /api/summary, once a fetch has failed the handler never answers
\* with metrics: its response is {error, details} with status 500, details
\* being the message of a fetch that failed (of the one that failed, when
\* only one did), whatever the other fetches have done.
C8_SummaryFailsAsAWhole ==
    route = "summary" /\ Thrown # {} =>
        /\ httpResponse.status # 200
        /\ hpc = "responded" =>
              /\ httpResponse.status = 500
              /\ DOMAIN httpResponse.body = {"error", "details"}
              /\ httpResponse.body.error = "Failed to fetch summary"
              /\ \E f \in Thrown :
                    httpResponse.body.details =
                        [status |-> error[f].status, text |-> error[f].text]

\* The conversations fetch failed on its second request, the other three
\* have resolved, and the handler has answered.
C8_Witness ==
    /\ route = "summary"
    /\ hpc = "responded"
    /\ Thrown = {"conversations"}
    /\ \A f \in Fetchers \ {"conversations"} : fpc[f] = "returned"
    /\ Len(pagesRcvd["conversations"]) = 1
    /\ result["contacts"] # <<>>

\* C9: when a page request of a drain fails, the failed request is the last
\* one the drain issues (no retry, no further page), the drain rejects with
\* the error the transport threw, it returns nothing, and the handler does
\* not answer with metrics.
C9_FailedPageAborts ==
    \A f \in Paginated :
        fpc[f] = "thrown" =>
            /\ Len(reqs[f]) = Len(pagesRcvd[f]) + 1
            /\ result[f] = NoResult
            /\ error[f] \in {interceptError(e) : e \in AllFailures}
            /\ httpResponse.status # 200

\* A drain failed on its second page, with items of the first in hand.
C9_Witness ==
    \E f \in Paginated :
        /\ fpc[f] = "thrown"
        /\ Len(reqs[f]) = 2
        /\ allItems[f] # <<>>
        /\ hpc = "responded"

\* The opportunity block of a successful response.
OpportunityMetrics ==
    IF route = "summary" THEN httpResponse.body.opportunities
    ELSE httpResponse.body

Having(opportunities, s) ==
    Cardinality({i \in DOMAIN opportunities : opportunities[i].status = s})

\* C10: in the responses of /api/summary and /api/opportunities, winRate is
\* won / (won + lost) when won + lost > 0 and exactly 0 otherwise, won and
\* lost being the numbers of records with status "won" and "lost"; records
\* of any other status count in neither.
C10_WinRate ==
    hpc = "responded" /\ httpResponse.status = 200
        /\ route \in {"summary", "opportunities"} =>
        LET won == Having(result["opportunities"], "won")
            lost == Having(result["opportunities"], "lost")
            winRate == OpportunityMetrics.winRate
        IN  /\ winRate.den > 0
            /\ won + lost > 0 => winRate.num * (won + lost) = won * winRate.den
            /\ won + lost = 0 => winRate = Zero

\* /api/summary answered for one won, one lost and one open opportunity.
C10_Witness ==
    /\ route = "summary"
    /\ hpc = "responded"
    /\ httpResponse.status = 200
    /\ Len(result["opportunities"]) = 3
    /\ Having(result["opportunities"], "won") = 1
    /\ Having(result["opportunities"], "lost") = 1
    /\ httpResponse.body.opportunities.winRate = [num |-> 1, den |-> 2]

\* A handler answered with its metrics.
Succeeded == hpc = "responded" /\ httpResponse.status = 200

HasOpportunities == route \in {"summary", "opportunities"}

\* A monetary value counts as a value above 0: a number above 0, and, on
\* the wide reading, also a string that spells one.
Positive(v, wide) ==
    \/ v.kind = "number" /\ v.num > 0
    \/ wide /\ v.kind = "string" /\ v.str # <<>> /\ AllDigits(v.str)
            /\ DigitsValue(v.str) > 0

Amount(v) == IF v.kind = "number" THEN v.num ELSE DigitsValue(v.str)

RECURSIVE SumOfPositive(_, _)
SumOfPositive(opportunities, wide) ==
    IF opportunities = <<>> THEN 0
    ELSE (IF Positive(Head(opportunities).monetaryValue, wide)
          THEN Amount(Head(opportunities).monetaryValue) ELSE 0)
            + SumOfPositive(Tail(opportunities), wide)

CountOfPositive(opportunities, wide) ==
    Cardinality({i \in 1..Len(opportunities) :
                    Positive(opportunities[i].monetaryValue, wide)})

\* The fraction q is the mean of the values above 0, and 0 if there is none.
IsMeanOfPositive(q, opportunities, wide) ==
    LET sum == SumOfPositive(opportunities, wide)
        count == CountOfPositive(opportunities, wide)
    IN  /\ q.den > 0
        /\ count > 0 => q.num * count = sum * q.den
        /\ count = 0 => q = Zero

\* C11 as claimed: in the responses of /api/summary and /api/opportunities,
\* avgDealSize is the sum of the monetary values strictly greater than 0
\* divided by the number of such records, and 0 when there is none; a value
\* <= 0, null or missing counts in neither (a string counting either as
\* malformed, in neither, or as the number it spells).
C11_AvgDealSize ==
    Succeeded /\ HasOpportunities =>
        \E wide \in BOOLEAN :
            IsMeanOfPositive(OpportunityMetrics.avgDealSize,
                             result["opportunities"], wide)

Scenario ==
    <<AggOpportunity("won", Num(100), Word("stage1")),
      AggOpportunity("lost", Num(0), Word("stage1")),
      AggOpportunity("open", Num(50), Word("stage1"))>>

\* C12 as claimed: for the opportunities won 100, lost 0, open 50 the
\* metrics are winRate = 1 and avgDealSize = 100.
C12_ScenarioAsClaimed ==
    Succeeded /\ HasOpportunities /\ result["opportunities"] = Scenario =>
        /\ OpportunityMetrics.winRate = [num |-> 1, den |-> 1]
        /\ OpportunityMetrics.avgDealSize = [num |-> 100, den |-> 1]

\* C12 as amended: for the opportunities won 100, lost 0, open 50 the
\* metrics are winRate = 1/2 (one won of two closed) and avgDealSize = 75
\* (the mean of 100 and 50: the open record counts, the zero value does
\* not), with wonCount = lostCount = 1.
C12_Scenario ==
    Succeeded /\ HasOpportunities /\ result["opportunities"] = Scenario =>
        /\ OpportunityMetrics.winRate = [num |-> 1, den |-> 2]
        /\ OpportunityMetrics.avgDealSize = [num |-> 75, den |-> 1]
        /\ OpportunityMetrics.wonCount = 1
        /\ OpportunityMetrics.lostCount = 1

\* /api/opportunities answered for the three opportunities of the scenario.
C12_Witness ==
    /\ route = "opportunities"
    /\ Succeeded
    /\ result["opportunities"] = Scenario
    /\ httpResponse.body.total = 3

HasConversations == route \in {"summary", "conversations"}

\* The conversation block of a successful response.
ConversationMetrics ==
    IF route = "summary" THEN httpResponse.body.conversations
    ELSE httpResponse.body

\* C13: in the responses of /api/summary and /api/conversations,
\* openCount + closedCount = total, total being the length of the list and
\* openCount the number of conversations with unreadCount > 0 or status
\* "open"; so 0 <= openCount <= total and closedCount >= 0.
C13_OpenPlusClosed ==
    Succeeded /\ HasConversations =>
        LET conversations == result["conversations"]
            m == ConversationMetrics
        IN  /\ m.total = Len(conversations)
            /\ m.openCount =
                 Cardinality({i \in 1..Len(conversations) :
                                \/ conversations[i].unreadCount > 0
                                \/ conversations[i].status = "open"})
            /\ m.openCount + m.closedCount = m.total
            /\ m.openCount \in 0..m.total
            /\ m.closedCount >= 0

\* /api/conversations answered for three conversations: one open by its
\* status alone, one unread though its status is "closed", one closed.
C13_Witness ==
    /\ route = "conversations"
    /\ Succeeded
    /\ LET conversations == result["conversations"]
       IN  /\ Len(conversations) = 3
           /\ conversations[1].status = "open"
           /\ conversations[1].unreadCount = 0
           /\ conversations[2].status = "closed"
           /\ conversations[2].unreadCount > 0
           /\ conversations[3].status = "closed"
           /\ conversations[3].unreadCount = 0
    /\ httpResponse.body.openCount = 2
    /\ httpResponse.body.closedCount = 1

\* The field is missing, null or the empty string.
KeyMissing(item, key) ==
    LET v == Field(item, key)
    IN  v.kind \in {"undefined", "null"} \/ (v.kind = "string" /\ v.str = <<>>)

\* The group an item belongs in.
GroupOf(item, key) ==
    IF KeyMissing(item, key) THEN <<"Unknown">> ELSE StringOf(Field(item, key))

RECURSIVE TotalSize(_)
TotalSize(groups) ==
    IF groups = <<>> THEN 0 ELSE Len(Head(groups).value) + TotalSize(Tail(groups))

\* C14 as claimed: groupBy is total. For every list and every key it
\* returns groups whose sizes sum to the length of the list, no two with
\* the same name, each holding exactly the items that belong in it, an item
\* whose key field is missing, null or empty belonging in "Unknown".
C14_GroupByTotal ==
    call.fn = "groupBy" /\ call.pc # "called" =>
        /\ call.pc = "returned"
        /\ TotalSize(call.ret) = Len(call.items)
        /\ \A g, h \in 1..Len(call.ret) :
              call.ret[g].name = call.ret[h].name => g = h
        /\ \A g \in 1..Len(call.ret) :
              call.ret[g].value =
                SelectSeq(call.items,
                          LAMBDA item : GroupOf(item, call.key) = call.ret[g].name)

\* The calendar the timestamps are read against: every day of 2024, at
\* midnight (date only) or at one of a few times of day.
CalendarTimes == {<<0, 0>>, <<12, 0>>, <<12, 1>>}

\* The text is the text of a date, or of a date and time, of the calendar
\* that lies strictly after the instant.
TextOfDateAfter(text, instant) ==
    \E m \in 1..12 : \E d \in 1..DaysInMonth(2024, m) :
        \/ text = Iso(2024, m, d) /\ Instant(2024, m, d, 0, 0) > instant
        \/ \E hm \in CalendarTimes :
              /\ text = IsoAt(2024, m, d, hm[1], hm[2])
              /\ Instant(2024, m, d, hm[1], hm[2]) > instant

Resolved(opp, pipelines) ==
    LET stages == AllStages(pipelines)
        defining == {i \in 1..Len(stages) : stages[i].id = opp.pipelineStageId}
    IN  IF defining = {} THEN <<"Unknown">>
        ELSE StringOf(stages[CHOOSE i \in defining : \A j \in defining : j <= i].name)

\* C15 as claimed: in the responses of /api/summary and /api/opportunities
\* the stage breakdown has one entry per distinct resolved name, its value
\* the number of opportunities resolving to that name, an opportunity whose
\* pipelineStageId no fetched stage carries resolving to "Unknown".
C15_UnresolvedIsUnknown ==
    Succeeded /\ HasOpportunities =>
        LET opportunities == result["opportunities"]
            pipelines == result["pipelines"]
            breakdown == OpportunityMetrics.stageBreakdown
        IN  /\ \A g, h \in 1..Len(breakdown) :
                  breakdown[g].name = breakdown[h].name => g = h
            /\ \A g \in 1..Len(breakdown) :
                  breakdown[g].value =
                    Num(Cardinality({i \in 1..Len(opportunities) :
                          Resolved(opportunities[i], pipelines) = breakdown[g].name}))
            /\ \A i \in 1..Len(opportunities) :
                  \E g \in 1..Len(breakdown) :
                      breakdown[g].name = Resolved(opportunities[i], pipelines)

\* The contact block of a successful response.
ContactMetrics ==
    IF route = "summary" THEN httpResponse.body.contacts ELSE httpResponse.body

\* The time a dateAdded sorts by: that of the date it spells, and before
\* every date when it is absent or spells none.
SortTime(dateAdded) ==
    IF dateAdded.kind = "string" /\ ParseIsoText(dateAdded.str).valid
    THEN ParseIsoText(dateAdded.str).time
    ELSE -1

\* C17 as claimed: recentContacts holds the first min(10, n) contacts of
\* the list sorted by dateAdded, latest first, a contact without a date or
\* with an unparseable one after every contact that has one: it has
\* min(10, n) entries, no entry is followed by one that sorts later, and
\* (n being at most 10 here) every contact of the list is among them.
C17_RecentContacts ==
    Succeeded /\ HasContacts(route) =>
        LET contacts == result["contacts"]
            recent == ContactMetrics.recentContacts
        IN  /\ Len(recent) = Min(RecentLimit, Len(contacts))
            /\ \A k, l \in 1..Len(recent) :
                  k < l => SortTime(recent[k].dateAdded) >= SortTime(recent[l].dateAdded)
            /\ Len(contacts) <= RecentLimit =>
                  \A x \in {DisplayContact(contacts[i]) : i \in 1..Len(contacts)} :
                      Cardinality({k \in 1..Len(recent) : recent[k] = x})
                        = Cardinality({i \in 1..Len(contacts) :
                                          DisplayContact(contacts[i]) = x})

IsCount(v, n) == v.kind = "number" /\ v.num \in 0..n

IsRate(q) == q.den > 0 /\ q.num >= 0 /\ q.num <= q.den

ContactRangesOk(m, n) ==
    /\ m.total \in 0..n
    /\ m.newThisMonth \in 0..n
    /\ \A g \in 1..Len(m.sourceBreakdown) : IsCount(m.sourceBreakdown[g].value, n)

OpportunityRangesOk(m, n) ==
    /\ m.total \in 0..n
    /\ m.wonCount \in 0..n
    /\ m.lostCount \in 0..n
    /\ \A g \in 1..Len(m.stageBreakdown) : IsCount(m.stageBreakdown[g].value, n)
    /\ IsRate(m.winRate)

ConversationRangesOk(m, n) ==
    /\ m.total \in 0..n
    /\ m.openCount \in 0..n
    /\ m.closedCount \in 0..n
    /\ "recentCount" \in DOMAIN m => m.recentCount \in 0..n
    /\ IsRate(m.responseRate)

\* C18 as claimed: in every successful response of the four routes every
\* count (total, newThisMonth, wonCount, lostCount, openCount, closedCount,
\* recentCount, each breakdown value) is an integer from 0 to the size of
\* its source list, and winRate and responseRate lie in [0, 1].
C18_Ranges ==
    Succeeded =>
        /\ HasContacts(route) =>
              ContactRangesOk(ContactMetrics, Len(result["contacts"]))
        /\ HasOpportunities =>
              OpportunityRangesOk(OpportunityMetrics, Len(result["opportunities"]))
        /\ HasConversations =>
              ConversationRangesOk(ConversationMetrics, Len(result["conversations"]))

RECURSIVE SumOfNumbers(_)
SumOfNumbers(opportunities) ==
    IF opportunities = <<>> THEN 0
    ELSE (IF Head(opportunities).monetaryValue.kind = "number"
          THEN Head(opportunities).monetaryValue.num ELSE 0)
            + SumOfNumbers(Tail(opportunities))

\* C19 as claimed: totalValue is a number, the sum of the monetary values
\* that are numbers; a null, missing or non-numeric one contributes 0.
C19_TotalValue ==
    Succeeded /\ HasOpportunities =>
        OpportunityMetrics.totalValue = Num(SumOfNumbers(result["opportunities"]))

AllEmpty == \A f \in RouteFetchers(route) : result[f] = <<>>

\* C20: when every fetch of the route returned the empty list the handler
\* answers with its metrics (status 200, no error), every count is 0,
\* winRate, avgDealSize, totalValue and responseRate are 0, and
\* sourceBreakdown, stageBreakdown and recentContacts are empty.
C20_EmptyLists ==
    hpc = "responded" /\ AllEmpty =>
        /\ httpResponse.status = 200
        /\ "error" \notin DOMAIN httpResponse.body
        /\ HasContacts(route) =>
              /\ ContactMetrics.total = 0
              /\ ContactMetrics.newThisMonth = 0
              /\ ContactMetrics.sourceBreakdown = <<>>
              /\ ContactMetrics.recentContacts = <<>>
        /\ HasOpportunities =>
              /\ OpportunityMetrics.total = 0
              /\ OpportunityMetrics.wonCount = 0
              /\ OpportunityMetrics.lostCount = 0
              /\ OpportunityMetrics.totalValue = Num(0)
              /\ OpportunityMetrics.winRate = Zero
              /\ OpportunityMetrics.avgDealSize = Zero
              /\ OpportunityMetrics.stageBreakdown = <<>>
        /\ HasConversations =>
              /\ ConversationMetrics.total = 0
              /\ ConversationMetrics.openCount = 0
              /\ ConversationMetrics.closedCount = 0
              /\ ConversationMetrics.responseRate = Zero
              /\ "recentCount" \in DOMAIN ConversationMetrics =>
                    ConversationMetrics.recentCount = 0

\* /api/summary answered after its four fetches returned empty lists.
C20_Witness ==
    /\ route = "summary"
    /\ hpc = "responded"
    /\ AllEmpty
    /\ httpResponse.body.conversations.total = 0

\* The text the claim names: the envelope's message, else its msg, else the
\* text of the transport error.
Extracted(e) ==
    IF e.hasResponse /\ e.dataMessage # "" THEN e.dataMessage
    ELSE IF e.hasResponse /\ e.dataMsg # "" THEN e.dataMsg
    ELSE e.text

Intercepted == call.fn = "interceptor" /\ call.pc = "threw"

\* C21 as claimed: the message of the error thrown for a failed call is the
\* extracted text itself.
C21_MessageIsExtractedText ==
    Intercepted => call.message = <<Extracted(call.failure)>>

\* C21: the error thrown for a failed call has the message
\* "GHL API Error (<status>): <text>", <text> being the envelope's message,
\* else its msg, else the transport error's text, and <status> the HTTP
\* status, or "undefined" when no response was received; so the error of a
\* timeout names no status code and its message differs from that of every
\* error made from an HTTP response.
C21_InterceptedError ==
    Intercepted =>
        LET e == call.failure
        IN  /\ call.message =
                  <<"GHL API Error (">>
                    \o (IF e.hasResponse THEN NatToString(e.status)
                        ELSE <<"undefined">>)
                    \o <<"): ", Extracted(e)>>
            /\ call.thrown.status = (IF e.hasResponse THEN e.status ELSE Absent)
            /\ ~e.hasResponse =>
                  \A h \in HttpFailures :
                      ErrorMessage(interceptError(h).status, interceptError(h).text)
                          # call.message

\* The interceptor threw for a response whose body carries both message and
\* msg.
C21_Witness ==
    /\ Intercepted
    /\ call.failure.hasResponse
    /\ call.failure.dataMessage # ""
    /\ call.failure.dataMsg # ""
    /\ call.thrown.text = call.failure.dataMessage

\* Request k+1 of a Cursor-GET drain exists exactly when page k, the last
\* one received, was not empty and carried nextPageUrl or nextPage.
MoreIssued(f) ==
    /\ Len(reqs[f]) \in {Len(pagesRcvd[f]), Len(pagesRcvd[f]) + 1}
    /\ pagesRcvd[f] # <<>> =>
          (Len(reqs[f]) = Len(pagesRcvd[f]) + 1 <=> ~StopObserved(f))

CursorsFollow(f) ==
    \A k \in 1..Len(reqs[f]) : reqs[f][k].startAfterId = CursorDue(f, k)

\* C22 as claimed: in a Cursor-GET drain the first request carries no
\* startAfterId, every later one the id of the last item of the page before
\* it, a further request exists exactly when the page before was not empty
\* and signalled a next page, and no two consecutive requests carry the
\* same cursor.
C22_ConsecutiveCursorsDiffer ==
    \A f \in GetFetchers :
        /\ CursorsFollow(f)
        /\ MoreIssued(f)
        /\ \A k \in 1..(Len(reqs[f]) - 1) : reqs[f][k] # reqs[f][k + 1]

\* C22: in a Cursor-GET drain the first request carries no startAfterId,
\* every later one the id of the last item of the page before it (none if
\* that item has no id), a further request exists exactly when the page
\* before was not empty and signalled a next page, and two consecutive
\* requests carry the same cursor exactly when the pages before them ended
\* with the same id, or request 2 follows a page ending without id.
C22_CursorFollowsLastId ==
    \A f \in GetFetchers :
        /\ CursorsFollow(f)
        /\ MoreIssued(f)
        /\ \A k \in 1..(Len(reqs[f]) - 1) :
              reqs[f][k] = reqs[f][k + 1]
                  <=> CursorDue(f, k) = CursorDue(f, k + 1)

\* A Cursor-GET drain whose second request carries the id 2, after a first
\* page of the records 1 and 2, and whose third carries another id.
C22_Witness ==
    \E f \in GetFetchers :
        /\ Len(reqs[f]) = 3
        /\ Len(pagesRcvd[f][1]) = 2
        /\ pagesRcvd[f][1][1].id = 1
        /\ reqs[f][1].startAfterId = Absent
        /\ reqs[f][2].startAfterId = 2
        /\ reqs[f][3].startAfterId = 1

\* The requests of a drain that have been sent and neither answered nor
\* failed.
Outstanding(f) ==
    Len(reqs[f]) - Len(pagesRcvd[f]) - (IF fpc[f] = "thrown" THEN 1 ELSE 0)

OneAtATime(f) ==
    /\ Outstanding(f) \in {0, 1}
    /\ Outstanding(f) = 1 <=> fpc[f] = "inflight"

\* A step that issues a request of drain f, other than the first, is the
\* step that received and processed the response to the request before it.
IssuedAfterResponse(f) ==
    Len(reqs'[f]) > Len(reqs[f]) /\ reqs[f] # <<>> =>
        /\ Len(reqs'[f]) = Len(reqs[f]) + 1
        /\ Len(pagesRcvd[f]) = Len(reqs[f]) - 1
        /\ Len(pagesRcvd'[f]) = Len(reqs[f])
        /\ allItems'[f] = allItems[f] \o pagesRcvd'[f][Len(reqs[f])]

\* C23: within one drain at most one request is in flight at any moment,
\* and request k+1 is issued only in the step that received and processed
\* the response to request k.
C23_StrictlySequential ==
    /\ [](\A f \in Paginated : OneAtATime(f))
    /\ [][\A f \in Paginated : IssuedAfterResponse(f)]_vars

\* On /api/summary the drains interleave: the contacts drain has its third
\* request in flight while the opportunities drain still waits for its
\* first response and the conversations drain has returned.
C23_Witness ==
    /\ route = "summary"
    /\ Len(reqs["contacts"]) = 3
    /\ fpc["contacts"] = "inflight"
    /\ Len(reqs["opportunities"]) = 1
    /\ fpc["opportunities"] = "inflight"
    /\ fpc["conversations"] = "returned"
    /\ \A f \in Paginated : OneAtATime(f)

\* Every fetch of the route has been called and has sent its first request.
AllStarted == \A f \in RouteFetchers(route) : fpc[f] # "idle" /\ reqs[f] # <<>>

\* The step of fetcher f that takes the answer to its request in flight.
FetchStep(f) ==
    IF f \in PostFetchers THEN fetchAllPagesPost(f)
    ELSE IF f \in GetFetchers THEN fetchAllPagesGet(f)
    ELSE getPipelines

\* A fetch with a request in flight goes on when that request is answered,
\* whatever the handler has done meanwhile.
SiblingsGoOn ==
    \A f \in RouteFetchers(route) :
        fpc[f] = "inflight" /\ Len(pagesRcvd[f]) < MaxReq => ENABLED FetchStep(f)

\* Once a fetch has failed the catch block is ready to run, whatever the
\* other fetches are doing.
CatchReady == hpc = "awaiting" /\ Thrown # {} => ENABLED GETcatch

\* C24: on /api/summary the four fetches are all started before the
\* handler awaits; once one has failed the error response can be produced
\* at once, the other fetches going on or not; the fetches still running
\* are not stopped by it; and once the handler has responded nothing a
\* fetch returns or throws changes the response or produces another.
C24_FailFastNoCancel ==
    /\ [](route = "summary" =>
            /\ hpc # "init" => AllStarted
            /\ CatchReady
            /\ SiblingsGoOn)
    /\ [][route = "summary" /\ hpc = "responded" =>
            httpResponse' = httpResponse /\ hpc' = hpc]_vars

\* /api/summary has answered 500 after the pipelines fetch failed, while
\* the contacts drain has its second request in flight and the
\* opportunities drain still waits for its first response.
C24_Witness ==
    /\ route = "summary"
    /\ hpc = "responded"
    /\ httpResponse.status = 500
    /\ Thrown = {"pipelines"}
    /\ fpc["contacts"] = "inflight"
    /\ Len(reqs["contacts"]) = 2
    /\ fpc["opportunities"] = "inflight"
    /\ Len(reqs["opportunities"]) = 1

\* C25: a Cursor-GET drain returns at the first page that is empty or
\* carries no next-page signal, having issued as many requests as that
\* page's index, and returns what it accumulated; until such a page comes
\* it keeps a request in flight, however many pages it has received.
C25_GetStopsAtFirstStopPage ==
    \A f \in GetFetchers :
        /\ \A k \in 1..(Len(pagesRcvd[f]) - 1) : pagesRcvd[f][k] # <<>>
        /\ pagesRcvd[f] = <<>> => fpc[f] # "returned"
        /\ pagesRcvd[f] # <<>> =>
              /\ fpc[f] = "returned" <=> StopObserved(f)
              /\ fpc[f] = "returned" =>
                    /\ Len(reqs[f]) = Len(pagesRcvd[f])
                    /\ result[f] = allItems[f]
              /\ ~StopObserved(f) /\ fpc[f] # "thrown" =>
                    /\ fpc[f] = "inflight"
                    /\ Len(reqs[f]) = Len(pagesRcvd[f]) + 1

\* A Cursor-GET drain that received non-empty pages with a signal only,
\* as many as the model lets it receive, and has the next request in flight.
C25_Witness ==
    \E f \in GetFetchers :
        /\ fpc[f] = "inflight"
        /\ Len(pagesRcvd[f]) = MaxReq
        /\ Len(reqs[f]) = MaxReq + 1
        /\ ~StopObserved(f)

\* What the orderly server holds for drain f, as its last answer reported it.
Held(f) == response[f].metaTotal

PagesNeeded(n) == Max(1, (n + Limit - 1) \div Limit)

\* C26: the k-th request of a Page-POST drain carries page = k and
\* limit = 100, and against the orderly server holding n records the drain
\* returns after exactly max(1, ceil(n / 100)) requests with the records
\* 1..n, in order.
C26_OrderlyDrain ==
    \A f \in PostFetchers :
        /\ \A k \in 1..Len(reqs[f]) : reqs[f][k] = [page |-> k, limit |-> 100]
        /\ fpc[f] = "returned" =>
              /\ Len(reqs[f]) = PagesNeeded(Held(f))
              /\ Len(result[f]) = Held(f)
              /\ \A i \in 1..Len(result[f]) : result[f][i] = Record(f, i)
        /\ fpc[f] = "inflight" /\ pagesRcvd[f] # <<>> =>
              Len(reqs[f]) <= PagesNeeded(Held(f))

\* getContacts returned 201 records after three requests, the last page
\* holding one record.
C26_Witness ==
    /\ route = "contacts"
    /\ fpc["contacts"] = "returned"
    /\ Len(reqs["contacts"]) = 3
    /\ Len(result["contacts"]) = 2 * Limit + 1
    /\ Len(pagesRcvd["contacts"][3]) = 1

\* C27: when a handler that fetched contacts has answered, its contacts
\* array holds the contacts the fetch returned, in the order the fetch
\* returned them, each record as it was.
C27_ContactsUnchanged ==
    hpc = "responded" /\ HasContacts(route) /\ rejection.none =>
        contactsArray = result["contacts"]

\* The conversation figures both routes report.
SharedConversationFields(b) ==
    [total |-> b.total, openCount |-> b.openCount,
     closedCount |-> b.closedCount, responseRate |-> b.responseRate]

\* C28: the blocks of a successful /api/summary response are what the
\* per-resource routes answer for the same fetched lists (read at the same
\* time, sorted by the same engine): the opportunities block is the body of
\* /api/opportunities, the contacts block the body of /api/contacts, and
\* total, openCount, closedCount and responseRate of the conversations
\* block are those of /api/conversations.
C28_EndpointsAgree ==
    route = "summary" /\ Succeeded =>
        /\ httpResponse.body.opportunities = OpportunitiesBody(result)
        /\ httpResponse.body.contacts =
              ContactsBody(result, clock, contactsArray)
        /\ httpResponse.body.conversations =
              SharedConversationFields(ConversationsBody(result, clock))

\* C29: a click on "Try Again" starts a new run of fetchSummary, which puts
\* the page back into the loading state.
C29_TryAgainRefetches ==
    [][dashboardPage'.tries > dashboardPage.tries =>
          /\ Len(dashboardPage'.runs) = Len(dashboardPage.runs) + 1
          /\ dashboardPage'.loading]_vars

\* Some run of fetchSummary started while another was in flight.
Overlapped == \E k \in 1..Len(dashboardPage.runs) : dashboardPage.runs[k].concurrent > 0

\* The state holds the outcome of the run started last: its summary and no
\* error if it succeeded, its error message if it failed.
LatestShown ==
    LET n == Len(dashboardPage.runs)
        last == dashboardPage.runs[n]
    IN  IF last.outcome = "ok"
        THEN dashboardPage.data = n /\ dashboardPage.error = ""
        ELSE dashboardPage.error = CaughtMessage(last.outcome)

\* C30: when runs of fetchSummary overlap, loading is true as long as one
\* of them is in flight, and once all have completed the state holds the
\* outcome of the run started last.
C30_LatestFetchWins ==
    Overlapped =>
        /\ InFlight(dashboardPage) # {} => dashboardPage.loading
        /\ InFlight(dashboardPage) = {} => LatestShown

====
